---- MODULE Spec2Model ----
(***************************************************************************)
(* Job/connector lifecycle of the custom connector framework: the          *)
(* CustomConnectors and CustomConnectorJobs tables, the DAO operations on  *)
(* them, the stream-driven job orchestrator and the Batch completion       *)
(* handler.  Every storage access of an invocation is one step, so that    *)
(* concurrent invocations interleave between a read and the write that     *)
(* follows it.  One connector row is modelled (rows of different           *)
(* connectors never interact); all jobs reference it.                      *)
(***************************************************************************)
EXTENDS Integers, Sequences, FiniteSets, TLC

\* ---------------------------------------------------------------- bounds
NumProcs == 2       \* concurrent invocations (API calls, handler runs)
MaxCalls == 3       \* invocations started in one behaviour
MaxDocs == 3        \* documents of the connector
MaxRuns == 2        \* sync runs in one behaviour
MaxItems == 25      \* items given to one batch operation of the CCFClient
MaxListed == 4      \* jobs of the connector when its jobs are listed

Procs == 1..NumProcs

\* ------------------------------------------------------- program values
AVAILABLE == "AVAILABLE"
IN_USE == "IN_USE"
ConnectorStatus == {AVAILABLE, IN_USE}

STARTED == "STARTED"
RUNNING == "RUNNING"
STOPPING == "STOPPING"
STOPPED == "STOPPED"
FAILED == "FAILED"
SUCCEEDED == "SUCCEEDED"
JobStatus == {STARTED, RUNNING, STOPPING, STOPPED, FAILED, SUCCEEDED}

\* the statuses update_job_status refuses to leave
RejectedStatuses == {STOPPED, FAILED}
\* the statuses whose write sets the TTL and releases the connector
ReleasingStatuses == {STOPPED, FAILED, SUCCEEDED}
\* the terminal statuses of the job state machine
TerminalStatuses == {STOPPED, FAILED, SUCCEEDED}
NonTerminal == JobStatus \ TerminalStatuses

InitialVersion == 1
\* process_batch_event passes the event's jobName as batch_job_id
JobNameAsHandle == -1

\* outcomes of an invocation
OK == "OK"
NotFound == "NotFound"
Conflict == "Conflict"
ConnectorConflict == "ConnectorConflict"
InternalError == "InternalError"

VARIABLES
    conn,         \* the connector row
    jobs,         \* the job table: job id (index) -> row
    stream,       \* pending change-feed records of the job table
    batch,        \* the Batch service: handle (index) -> submitted job
    completions,  \* pending Batch state-change events
    proc,         \* the running invocations
    calls,        \* invocations started so far
    origin,       \* the initial store of the behaviour
    local,        \* the connector's documents: id -> what get_documents_to_add
                  \* and get_documents_to_delete yield for it
    ledger,       \* the documents table: (document_id, checksum) items
    sync,         \* the sync run of the builder kit: its position and locals
    indexCalls,   \* the batch calls the run made to the external index
    ledgerCalls,  \* the batch calls the run made to the documents API
    skipped,      \* the documents the run logged as skipped
    listing       \* a client paging through list_jobs: the pages it has got

\* the variables of the builder kit
kit == <<local, ledger, sync, indexCalls, ledgerCalls, skipped>>

vars == <<conn, jobs, stream, batch, completions, proc, calls, origin, kit, listing>>

\* no sync run: sync() has not been called
SyncIdle ==
    [pc |-> "idle", runs |-> 0, edited |-> FALSE, s3 |-> FALSE, ccf_docs |-> {},
     cands |-> <<>>, dels |-> <<>>,
     i |-> 1, batch |-> <<>>, acc |-> 0, items |-> <<>>, pos |-> 0,
     raised |-> FALSE, last |-> "-", started |-> FALSE, stops |-> 0]

\* the builder kit is not in use
KitIdle ==
    /\ local = <<>>
    /\ ledger = {}
    /\ sync = SyncIdle
    /\ indexCalls = <<>>
    /\ ledgerCalls = <<>>
    /\ skipped = {}

\* nobody is listing jobs
NoListing ==
    [pc |-> "idle", others |-> <<>>, status |-> "-", max_results |-> 0,
     next_token |-> {}, pages |-> <<>>]

\* a field that is None (a request field not provided, a null attribute)
None == "None"
\* the time of create_connector and any later time
CreatedAt == "t0"
Now == "now"
\* the attributes of container_properties (two of the five stand for all)
PropKeys == {"image_uri", "timeout"}
\* the updatable fields of UpdateConnectorRequest
FieldKeys == {"name", "description", "container_properties"}

\* the item create_connector puts
NewConnector ==
    [st |-> "present", status |-> AVAILABLE, version |-> InitialVersion, cp |-> 0,
     connector_id |-> "cc", arn |-> "arn", name |-> "n0", description |-> "d0",
     container_properties |-> [k \in PropKeys |-> "p0"],
     created_at |-> CreatedAt, updated_at |-> CreatedAt]

NoConnector == [NewConnector EXCEPT !.st = "absent", !.version = 0]
DeletedConnector == [NoConnector EXCEPT !.st = "deleted"]
Present(c) == c.st = "present"

Idle == [op |-> "idle", pc |-> "idle", job |-> 0, rstat |-> "-", rbid |-> 0,
         cstat |-> "-", ctx |-> "-", phase |-> "-", rv |-> 0, item |-> NoConnector,
         req |-> [given |-> {}, props |-> {}], data |-> 0, ev |-> "-", res |-> "-"]

\* the empty tables
FreshStore ==
    /\ conn = NoConnector
    /\ jobs = <<>>
    /\ stream = {}
    /\ batch = <<>>
    /\ completions = {}

\* the store after create_connector, start_job and handle_job_start have run for
\* one job: the connector is IN_USE at version 2, the job RUNNING with its handle
RunningJobStore ==
    /\ conn = [NewConnector EXCEPT !.status = IN_USE, !.version = 2, !.updated_at = Now]
    /\ jobs = <<[status |-> "RUNNING", bid |-> 1, ttl |-> FALSE]>>
    /\ stream = {}
    /\ batch = <<[job |-> 1, st |-> "active"]>>
    /\ completions = {}

Init ==
    /\ \/ FreshStore /\ origin = "fresh"
       \/ RunningJobStore /\ origin = "running"
    /\ proc = [p \in Procs |-> Idle]
    /\ calls = 0
    /\ listing = NoListing
    /\ KitIdle

IsIdle(p) == proc[p].pc = "idle"

\* returning touches nothing shared: an invocation that is done returns before
\* any other step is taken
NoneDone == \A q \in Procs : proc[q].pc # "done"

\* invocations are interchangeable: a new one takes the first idle slot
Free(p) == NoneDone /\ IsIdle(p) /\ \A q \in Procs : q < p => ~IsIdle(q)

\* an invocation starts
Invoke == calls < MaxCalls /\ calls' = calls + 1

At(p, l) == NoneDone /\ proc[p].pc = l

\* an invocation ends with outcome r
Done(q, r) == [Idle EXCEPT !.op = q.op, !.pc = "done", !.job = q.job, !.ev = q.ev, !.res = r]

SetProc(p, q) == proc' = [proc EXCEPT ![p] = q]

\* ------------------------------------------------------------ connectors

\* create_connector: put_item with attribute_not_exists(connector_id)
CreateConnector ==
    /\ NoneDone
    /\ conn.st = "absent"
    /\ conn' = NewConnector
    /\ UNCHANGED <<jobs, stream, batch, completions, proc, calls, origin, kit, listing>>

\* mutant: the delete is conditional on existence only
DeleteConditionExists(c) == Present(c)

\* delete_connector: delete_item with attribute_exists AND status <> IN_USE
DeleteCondition(c) == Present(c) /\ c.status # IN_USE

DeleteConnector(p) ==
    /\ Free(p)
    /\ Invoke
    /\ conn.st # "absent"
    /\ IF DeleteCondition(conn)
         THEN /\ conn' = DeletedConnector
              /\ SetProc(p, Done([Idle EXCEPT !.op = "DeleteConnector"], OK))
         ELSE /\ conn' = conn
              /\ SetProc(p, [Idle EXCEPT !.op = "DeleteConnector", !.pc = "dc_get"])
    /\ UNCHANGED <<jobs, stream, batch, completions, origin, kit, listing>>

\* delete_connector, after ConditionalCheckFailedException: get_connector
DeleteConnectorGet(p) ==
    /\ At(p, "dc_get")
    /\ SetProc(p, Done(proc[p], IF Present(conn) THEN Conflict ELSE NotFound))
    /\ UNCHANGED <<conn, jobs, stream, batch, completions, calls, origin, kit, listing>>

\* mutant: the write keeps the version it read
NewVersionStale(v) == v

\* the optimistic lock: current_version + 1, written under version = :current_version
NewVersion(v) == v + 1

\* mutant: the write is conditional on existence only
VersionConditionNone(c, rv) == Present(c)

\* the ConditionExpression version = :current_version
VersionCondition(c, rv) == Present(c) /\ c.version = rv

\* the checkpoint_data of the PutCheckpointRequests tried (0 = no checkpoint
\* stored).  Behaviours of the checkpoint round trip (origin "ckpt") put two
\* different values, the others one.
CheckpointData == IF origin = "ckpt" THEN {1, 2} ELSE {1}

\* put_checkpoint: get_item
PutCheckpointRead(p) ==
    /\ Free(p)
    /\ conn.st # "absent"
    /\ Invoke
    /\ \E d \in CheckpointData :
         SetProc(p, IF Present(conn)
                      THEN [Idle EXCEPT !.op = "PutCheckpoint", !.pc = "cp_write",
                                        !.rv = conn.version, !.data = d]
                      ELSE Done([Idle EXCEPT !.op = "PutCheckpoint"], NotFound))
    /\ UNCHANGED <<conn, jobs, stream, batch, completions, origin, kit, listing>>

\* put_checkpoint: update_item SET checkpoint, version
PutCheckpointWrite(p) ==
    /\ At(p, "cp_write")
    /\ IF VersionCondition(conn, proc[p].rv)
         THEN /\ conn' = [conn EXCEPT !.cp = proc[p].data,
                                      !.version = NewVersion(proc[p].rv),
                                      !.updated_at = Now]
              /\ SetProc(p, Done(proc[p], OK))
         ELSE /\ conn' = conn
              /\ SetProc(p, Done(proc[p], Conflict))
    /\ UNCHANGED <<jobs, stream, batch, completions, calls, origin, kit, listing>>

\* mutant: every item has a checkpoint to delete
HasCheckpointAlways(c) == TRUE

\* "checkpoint" in item
HasCheckpoint(c) == c.cp # 0

\* get_checkpoint: get_item; the connector or its checkpoint may be missing
GetCheckpoint(p) ==
    /\ Free(p)
    /\ conn.st # "absent"
    /\ Invoke
    /\ LET q == [Idle EXCEPT !.op = "GetCheckpoint"] IN
       SetProc(p, IF Present(conn) /\ HasCheckpoint(conn)
                    THEN [Done(q, OK) EXCEPT !.data = conn.cp]
                    ELSE Done(q, NotFound))
    /\ UNCHANGED <<conn, jobs, stream, batch, completions, origin, kit, listing>>

\* delete_checkpoint: get_item, "checkpoint" not in item
DeleteCheckpointRead(p) ==
    /\ Free(p)
    /\ conn.st # "absent"
    /\ Invoke
    /\ SetProc(p, IF Present(conn) /\ HasCheckpoint(conn)
                    THEN [Idle EXCEPT !.op = "DeleteCheckpoint", !.pc = "dcp_write",
                                      !.rv = conn.version]
                    ELSE Done([Idle EXCEPT !.op = "DeleteCheckpoint"], NotFound))
    /\ UNCHANGED <<conn, jobs, stream, batch, completions, origin, kit, listing>>

\* delete_checkpoint: update_item REMOVE checkpoint SET version
DeleteCheckpointWrite(p) ==
    /\ At(p, "dcp_write")
    /\ IF VersionCondition(conn, proc[p].rv)
         THEN /\ conn' = [conn EXCEPT !.cp = 0, !.version = NewVersion(proc[p].rv),
                                      !.updated_at = Now]
              /\ SetProc(p, Done(proc[p], OK))
         ELSE /\ conn' = conn
              /\ SetProc(p, Done(proc[p], Conflict))
    /\ UNCHANGED <<jobs, stream, batch, completions, calls, origin, kit, listing>>

\* the UpdateConnectorRequests tried: given = the fields that are not None,
\* props = the attributes set in container_properties (none or one of them,
\* never all).  Behaviours of the job
\* lifecycle update the name at most; behaviours that start from a stored item
\* (origin "item") try every request.
Requests ==
    IF origin = "item"
      THEN {[given |-> D, props |-> S] : D \in SUBSET FieldKeys, S \in {{}, {"image_uri"}}}
      ELSE {[given |-> D, props |-> {}] : D \in {{}, {"name"}}}

\* update_connector: get_item
UpdateConnectorRead(p) ==
    /\ Free(p)
    /\ conn.st # "absent"
    /\ Invoke
    /\ \E r \in Requests :
         /\ "container_properties" \notin r.given => r.props = {}
         /\ SetProc(p, IF Present(conn)
                         THEN [Idle EXCEPT !.op = "UpdateConnector", !.pc = "uc_write",
                                           !.rv = conn.version, !.item = conn, !.req = r]
                         ELSE Done([Idle EXCEPT !.op = "UpdateConnector"], NotFound))
    /\ UNCHANGED <<conn, jobs, stream, batch, completions, origin, kit, listing>>

\* UpdateContainerProperties.model_dump(): every attribute of the model, None
\* for those the request did not set
ModelDump(props) == [k \in PropKeys |-> IF k \in props THEN "p1" ELSE None]

\* mutant: the three updatable fields are written from the request, None included
UpdatedItemFromRequest(item, req, rv) ==
    [item EXCEPT
       !.name = IF "name" \in req.given THEN "n1" ELSE None,
       !.description = IF "description" \in req.given THEN "d1" ELSE None,
       !.container_properties = ModelDump(req.props),
       !.updated_at = Now,
       !.version = NewVersion(rv)]

\* update_connector: the item read, with the provided fields, updated_at and the
\* version replaced
UpdatedItem(item, req, rv) ==
    [item EXCEPT
       !.name = IF "name" \in req.given THEN "n1" ELSE @,
       !.description = IF "description" \in req.given THEN "d1" ELSE @,
       !.container_properties =
           IF "container_properties" \in req.given THEN ModelDump(req.props) ELSE @,
       !.updated_at = Now,
       !.version = NewVersion(rv)]

\* update_connector: put_item of the whole item under version = :current_version
UpdateConnectorWrite(p) ==
    /\ At(p, "uc_write")
    /\ IF VersionCondition(conn, proc[p].rv)
         THEN /\ conn' = UpdatedItem(proc[p].item, proc[p].req, proc[p].rv)
              /\ SetProc(p, Done(proc[p], OK))
         ELSE /\ conn' = conn
              /\ SetProc(p, Done(proc[p], Conflict))
    /\ UNCHANGED <<jobs, stream, batch, completions, calls, origin, kit, listing>>


\* ------------------------------------------------------------------ jobs

NewJob == [status |-> STARTED, bid |-> 0, ttl |-> FALSE]
JobIds == 1..Len(jobs)
StreamRecord(j, row) == [job |-> j, status |-> row.status, bid |-> row.bid]

\* record_handler acts on STARTED and STOPPING images and skips every other one
\* without reading or writing anything: only the former are kept pending
Emitted(j, row) ==
    IF row.status \in {STARTED, STOPPING} THEN {StreamRecord(j, row)} ELSE {}

\* mutant: start_job without the availability check
StartAllowedAlways(status) == TRUE

\* start_job, step 1: connector_info.status != AVAILABLE raises DaoConflictError
StartAllowed(status) == status = AVAILABLE

Cleared(q) == [q EXCEPT !.rstat = "-", !.rbid = 0, !.cstat = "-", !.ctx = "-", !.rv = 0]

\* enter update_connector_status(status) from call site ctx
CallUcs(q, status, ctx) == [q EXCEPT !.pc = "ucs_read", !.cstat = status, !.ctx = ctx]

\* enter update_job_status(job, status, batch_job_id)
CallUjs(q, status, bid) ==
    [q EXCEPT !.pc = "ujs_verify", !.rstat = status, !.rbid = bid, !.cstat = "-",
              !.ctx = "-", !.rv = 0]

\* start_job, step 1: get_connector and the availability check
StartJobGet(p) ==
    /\ Free(p)
    /\ conn.st # "absent"
    /\ Invoke
    /\ LET q == [Idle EXCEPT !.op = "StartJob"] IN
       SetProc(p, IF ~Present(conn) THEN Done(q, NotFound)
                  ELSE IF ~StartAllowed(conn.status) THEN Done(q, Conflict)
                  ELSE CallUcs(q, IN_USE, "flip"))
    /\ UNCHANGED <<conn, jobs, stream, batch, completions, origin, kit, listing>>

\* what follows update_job_status returning (r = OK) or raising r
AfterUjs(q, r) ==
    CASE q.op = "StopJob" -> Done(q, r)
      [] q.op = "Orchestrator" /\ q.phase = "main" ->
            \* handle_job_start: except Exception -> update_job_status(FAILED)
            IF r = OK THEN Done(q, OK)
            ELSE CallUjs([q EXCEPT !.phase = "comp"], FAILED, 0)
      [] q.op = "Orchestrator" /\ q.phase = "comp" ->
            \* the compensation swallows what it raises
            IF r = OK THEN CallUcs(Cleared(q), AVAILABLE, "tail") ELSE Done(q, OK)
      [] q.op = "Completion" ->
            IF r = OK THEN CallUcs(Cleared(q), AVAILABLE, "tail") ELSE Done(q, r)
      [] OTHER -> Done(q, r)

\* mutant: a failed rollback is reported instead of the insert failure
AfterUcsMasking(q, r) ==
    CASE q.ctx = "flip" ->
            IF r = OK THEN [q EXCEPT !.pc = "sj_put", !.cstat = "-", !.ctx = "-", !.rv = 0]
            ELSE Done(q, r)
      [] q.ctx = "rollback" -> Done(q, IF r = OK THEN InternalError ELSE r)
      [] q.ctx = "ujs" ->
            IF r \in {OK, NotFound} THEN AfterUjs(q, OK) ELSE AfterUjs(q, r)
      [] q.ctx = "tail" ->
            IF q.op = "Orchestrator" THEN Done(q, OK) ELSE Done(q, r)
      [] OTHER -> Done(q, r)

\* what follows update_connector_status returning (r = OK) or raising r
AfterUcs(q, r) ==
    CASE q.ctx = "flip" ->
            IF r = OK THEN [q EXCEPT !.pc = "sj_put", !.cstat = "-", !.ctx = "-", !.rv = 0]
            ELSE Done(q, r)
      [] q.ctx = "rollback" -> Done(q, InternalError)
      [] q.ctx = "ujs" ->
            \* update_job_status swallows ConnectorDaoNotFoundError only
            IF r \in {OK, NotFound} THEN AfterUjs(q, OK) ELSE AfterUjs(q, r)
      [] q.ctx = "tail" ->
            IF q.op = "Orchestrator" THEN Done(q, OK) ELSE Done(q, r)
      [] OTHER -> Done(q, r)

\* a completion handler that raises has its event delivered again ...
Redelivered(q) ==
    IF q.op = "Completion" /\ q.pc = "done" /\ q.res # OK
      THEN {[job |-> q.job, outcome |-> q.ev]} ELSE {}

\* ... or dropped, when the retries of the event are used up
Continue(p, q) ==
    /\ SetProc(p, q)
    /\ \/ completions' = completions \cup Redelivered(q)
       \/ completions' = completions

\* update_connector_status: get_item
UcsRead(p) ==
    /\ At(p, "ucs_read")
    /\ Continue(p, IF Present(conn)
                     THEN [proc[p] EXCEPT !.pc = "ucs_write", !.rv = conn.version]
                     ELSE AfterUcs(proc[p], NotFound))
    /\ UNCHANGED <<conn, jobs, stream, batch, calls, origin, kit, listing>>

\* update_connector_status: update_item SET status, version under the version read
UcsWrite(p) ==
    /\ At(p, "ucs_write")
    /\ IF VersionCondition(conn, proc[p].rv)
         THEN /\ conn' = [conn EXCEPT !.status = proc[p].cstat,
                                      !.version = NewVersion(proc[p].rv),
                                      !.updated_at = Now]
              /\ Continue(p, AfterUcs(proc[p], OK))
         ELSE /\ conn' = conn
              /\ Continue(p, AfterUcs(proc[p], ConnectorConflict))
    /\ UNCHANGED <<jobs, stream, batch, calls, origin, kit, listing>>

\* start_job, step 3: put_item of the new job; a ClientError starts the rollback
StartJobPut(p) ==
    /\ At(p, "sj_put")
    /\ \/ /\ jobs' = Append(jobs, NewJob)
          /\ stream' = stream \cup Emitted(Len(jobs) + 1, NewJob)
          /\ SetProc(p, Done([proc[p] EXCEPT !.job = Len(jobs) + 1], OK))
       \/ /\ SetProc(p, CallUcs(proc[p], AVAILABLE, "rollback"))
          /\ UNCHANGED <<jobs, stream>>
    /\ UNCHANGED <<conn, batch, completions, calls, origin, kit, listing>>


\* mutant: only STOPPED is refused
IsRejectedStoppedOnly(status) == status = STOPPED

\* update_job_status: current_status in (STOPPED, FAILED) raises DaoConflictError
IsRejected(status) == status \in RejectedStatuses

\* mutant: the set of _mark_connector_available_if_terminal, without SUCCEEDED
MarksAvailableNoSuccess(status) == status \in {STOPPED, FAILED}

\* update_job_status: the statuses that set the TTL and mark_available
MarksAvailable(status) == status \in ReleasingStatuses

\* mutant: every status write sets the TTL
UpdatedJobAlwaysTtl(row, status, bid) ==
    [status |-> status,
     bid |-> IF bid # 0 THEN bid ELSE row.bid,
     ttl |-> TRUE]

\* update_job_status: the row written by update_item
UpdatedJob(row, status, bid) ==
    [status |-> status,
     bid |-> IF bid # 0 THEN bid ELSE row.bid,
     ttl |-> IF MarksAvailable(status) THEN TRUE ELSE row.ttl]

\* update_job_status, step 1: _verify_connector_exists
UjsVerify(p) ==
    /\ At(p, "ujs_verify")
    /\ Continue(p, IF Present(conn) THEN [proc[p] EXCEPT !.pc = "ujs_get"]
                   ELSE AfterUjs(proc[p], NotFound))
    /\ UNCHANGED <<conn, jobs, stream, batch, calls, origin, kit, listing>>

\* update_job_status, step 2: get_item of the job and the terminal-status check
UjsGet(p) ==
    /\ At(p, "ujs_get")
    /\ LET j == proc[p].job IN
       Continue(p, IF j \notin JobIds THEN AfterUjs(proc[p], NotFound)
                   ELSE IF IsRejected(jobs[j].status) THEN AfterUjs(proc[p], Conflict)
                   ELSE [proc[p] EXCEPT !.pc = "ujs_write"])
    /\ UNCHANGED <<conn, jobs, stream, batch, calls, origin, kit, listing>>

\* update_job_status, step 3: update_item under attribute_exists(job_id)
UjsWrite(p) ==
    /\ At(p, "ujs_write")
    /\ LET j == proc[p].job
           row == UpdatedJob(jobs[j], proc[p].rstat, proc[p].rbid) IN
       /\ jobs' = [jobs EXCEPT ![j] = row]
       /\ stream' = stream \cup Emitted(j, row)
       /\ Continue(p, IF MarksAvailable(proc[p].rstat)
                        THEN CallUcs(proc[p], AVAILABLE, "ujs")
                        ELSE AfterUjs(proc[p], OK))
    /\ UNCHANGED <<conn, batch, calls, origin, kit, listing>>

\* StopCustomConnectorJobActivity.stop: update_job_status(STOPPING), no batch_job_id
StopJob(p, j) ==
    /\ Free(p)
    /\ Invoke
    /\ conn.st # "absent"
    /\ SetProc(p, CallUjs([Idle EXCEPT !.op = "StopJob", !.job = j], STOPPING, 0))
    /\ UNCHANGED <<conn, jobs, stream, batch, completions, origin, kit, listing>>

\* ----------------------------------------------------------- orchestrator

\* a change-feed record is delivered; a duplicate delivery leaves it pending
Deliver(queue, e) ==
    \/ queue' = queue \ {e}
    \/ queue' = queue

\* mutant: the failure is logged and nothing is compensated
CompensateNothing(q, bid) == Done(q, OK)

\* the compensation of handle_job_start and handle_job_stop
Compensate(q, bid) == CallUjs([q EXCEPT !.phase = "comp"], FAILED, bid)

\* record_handler: dispatch on the new image's status; handle_job_start begins
\* with get_connector, handle_job_stop with the batch_job_id check
RecordHandler(p, e) ==
    /\ Free(p)
    /\ Invoke
    /\ e \in stream
    /\ Deliver(stream, e)
    /\ LET q == [Idle EXCEPT !.op = "Orchestrator", !.job = e.job, !.phase = "main"] IN
       SetProc(p, CASE e.status = STARTED ->
                         IF Present(conn) THEN [q EXCEPT !.pc = "hs_submit"]
                         ELSE Compensate(q, 0)
                    [] e.status = STOPPING ->
                         IF e.bid = 0 THEN Done(q, OK)
                         ELSE [q EXCEPT !.pc = "hs_cancel", !.rbid = e.bid]
                    [] OTHER -> Done(q, OK))
    /\ UNCHANGED <<conn, jobs, batch, completions, origin, kit, listing>>

\* handle_job_start: register_job_definition and submit_job
SubmitJob(p) ==
    /\ At(p, "hs_submit")
    /\ \/ /\ batch' = Append(batch, [job |-> proc[p].job, st |-> "active"])
          /\ SetProc(p, CallUjs(proc[p], RUNNING, Len(batch) + 1))
       \/ /\ SetProc(p, Compensate(proc[p], 0))
          /\ UNCHANGED batch
    /\ UNCHANGED <<conn, jobs, stream, completions, calls, origin, kit, listing>>

\* mutant: the job is marked FAILED after an accepted cancel request as well
CancelJobThenFail(p) ==
    /\ At(p, "hs_cancel")
    /\ LET h == proc[p].rbid IN
       /\ batch' = IF h \in 1..Len(batch) /\ batch[h].st = "active"
                     THEN [batch EXCEPT ![h].st = "cancelled"] ELSE batch
       /\ SetProc(p, Compensate(proc[p], h))
    /\ UNCHANGED <<conn, jobs, stream, completions, calls, origin, kit, listing>>

\* handle_job_stop: cancel_job(jobId=batch_job_id)
CancelJob(p) ==
    /\ At(p, "hs_cancel")
    /\ LET h == proc[p].rbid IN
       \/ /\ batch' = IF h \in 1..Len(batch) /\ batch[h].st = "active"
                        THEN [batch EXCEPT ![h].st = "cancelled"] ELSE batch
          /\ SetProc(p, Done(proc[p], OK))
       \/ /\ SetProc(p, Compensate(proc[p], h))
          /\ UNCHANGED batch
    /\ UNCHANGED <<conn, jobs, stream, completions, calls, origin, kit, listing>>

\* the Batch service ends a submitted job and emits its state-change event; a
\* job that was already running when cancel_job came may still succeed
BatchFinish(h) ==
    /\ NoneDone
    /\ h \in 1..Len(batch)
    /\ batch[h].st # "done"
    /\ \E o \in {SUCCEEDED, FAILED} :
         completions' = completions \cup {[job |-> batch[h].job, outcome |-> o]}
    /\ batch' = [batch EXCEPT ![h].st = "done"]
    /\ UNCHANGED <<conn, jobs, stream, proc, calls, origin, kit, listing>>

\* ------------------------------------------------------ completion handler

\* mutant: the Batch outcome is taken as it comes
MappedStatusRaw(outcome, current) == IF outcome = SUCCEEDED THEN SUCCEEDED ELSE FAILED

\* process_batch_event: the job status for a Batch outcome and the status read
MappedStatus(outcome, current) ==
    IF outcome = SUCCEEDED THEN SUCCEEDED
    ELSE IF current = STOPPING THEN STOPPED
    ELSE FAILED

\* mutant: every event that names a job is acted on
ActionableNamed(e) == e.job # 0

\* process_batch_event: an event is acted on when it has a jobName and its
\* status is SUCCEEDED or FAILED (job 0 = no jobName)
Actionable(e) == e.job # 0 /\ e.outcome \in {SUCCEEDED, FAILED}

\* process_batch_event: the guard, then get_item of the job and the mapping
ProcessBatchEvent(p, e) ==
    /\ Free(p)
    /\ Invoke
    /\ e \in completions
    /\ Deliver(completions, e)
    /\ LET q == [Idle EXCEPT !.op = "Completion", !.job = e.job, !.ev = e.outcome] IN
       SetProc(p, IF Actionable(e)
                    THEN CallUjs(q, MappedStatus(e.outcome, jobs[e.job].status),
                                 JobNameAsHandle)
                    ELSE Done(q, OK))
    /\ UNCHANGED <<conn, jobs, stream, batch, origin, kit, listing>>

\* the invocation returns
Return(p) ==
    /\ proc[p].pc = "done"
    /\ SetProc(p, Idle)
    /\ UNCHANGED <<conn, jobs, stream, batch, completions, calls, origin, kit, listing>>

\* ---------------------------------------------------------- specifications

Next ==
    \/ CreateConnector
    \/ \E p \in Procs : DeleteConnector(p)
    \/ \E p \in Procs : DeleteConnectorGet(p)
    \/ \E p \in Procs : PutCheckpointRead(p)
    \/ \E p \in Procs : PutCheckpointWrite(p)
    \/ \E p \in Procs : DeleteCheckpointRead(p)
    \/ \E p \in Procs : DeleteCheckpointWrite(p)
    \/ \E p \in Procs : UpdateConnectorRead(p)
    \/ \E p \in Procs : UpdateConnectorWrite(p)
    \/ \E p \in Procs : StartJobGet(p)
    \/ \E p \in Procs : UcsRead(p)
    \/ \E p \in Procs : UcsWrite(p)
    \/ \E p \in Procs : StartJobPut(p)
    \/ \E p \in Procs, j \in JobIds : StopJob(p, j)
    \/ \E p \in Procs : UjsVerify(p)
    \/ \E p \in Procs : UjsGet(p)
    \/ \E p \in Procs : UjsWrite(p)
    \/ \E p \in Procs, e \in stream : RecordHandler(p, e)
    \/ \E p \in Procs : SubmitJob(p)
    \/ \E p \in Procs : CancelJob(p)
    \/ \E h \in 1..Len(batch) : BatchFinish(h)
    \/ \E p \in Procs, e \in completions : ProcessBatchEvent(p, e)
    \/ \E p \in Procs : Return(p)

Spec == Init /\ [][Next]_vars

\* invocations run one at a time, each to its return
Sequential == Cardinality({p \in Procs : ~IsIdle(p)}) <= 1
SeqNext ==
    \/ CreateConnector /\ Sequential'
    \/ \E p \in Procs : DeleteConnector(p) /\ Sequential'
    \/ \E p \in Procs : DeleteConnectorGet(p) /\ Sequential'
    \/ \E p \in Procs : PutCheckpointRead(p) /\ Sequential'
    \/ \E p \in Procs : PutCheckpointWrite(p) /\ Sequential'
    \/ \E p \in Procs : DeleteCheckpointRead(p) /\ Sequential'
    \/ \E p \in Procs : DeleteCheckpointWrite(p) /\ Sequential'
    \/ \E p \in Procs : UpdateConnectorRead(p) /\ Sequential'
    \/ \E p \in Procs : UpdateConnectorWrite(p) /\ Sequential'
    \/ \E p \in Procs : StartJobGet(p) /\ Sequential'
    \/ \E p \in Procs : UcsRead(p) /\ Sequential'
    \/ \E p \in Procs : UcsWrite(p) /\ Sequential'
    \/ \E p \in Procs : StartJobPut(p) /\ Sequential'
    \/ \E p \in Procs, j \in JobIds : StopJob(p, j) /\ Sequential'
    \/ \E p \in Procs : UjsVerify(p) /\ Sequential'
    \/ \E p \in Procs : UjsGet(p) /\ Sequential'
    \/ \E p \in Procs : UjsWrite(p) /\ Sequential'
    \/ \E p \in Procs, e \in stream : RecordHandler(p, e) /\ Sequential'
    \/ \E p \in Procs : SubmitJob(p) /\ Sequential'
    \/ \E p \in Procs : CancelJob(p) /\ Sequential'
    \/ \E h \in 1..Len(batch) : BatchFinish(h) /\ Sequential'
    \/ \E p \in Procs, e \in completions : ProcessBatchEvent(p, e) /\ Sequential'
    \/ \E p \in Procs : Return(p) /\ Sequential'
SeqSpec == Init /\ [][SeqNext]_vars

\* a stored connector an update can meet: created with or without a description
\* and either untouched since, or running the job of RunningJobStore with a
\* checkpoint put; every write since the creation took one version
StoredItem(d, busy) ==
    [NewConnector EXCEPT !.description = d,
                         !.cp = IF busy THEN 1 ELSE 0,
                         !.status = IF busy THEN IN_USE ELSE AVAILABLE,
                         !.version = IF busy THEN InitialVersion + 2 ELSE InitialVersion,
                         !.updated_at = IF busy THEN Now ELSE CreatedAt]

ItemInit ==
    /\ origin = "item"
    /\ \E d \in {None, "d0"}, busy \in BOOLEAN :
         /\ conn = StoredItem(d, busy)
         /\ jobs = IF busy THEN <<[status |-> RUNNING, bid |-> 1, ttl |-> FALSE]>> ELSE <<>>
         /\ batch = IF busy THEN <<[job |-> 1, st |-> "active"]>> ELSE <<>>
    /\ stream = {}
    /\ completions = {}
    /\ proc = [p \in Procs |-> Idle]
    /\ calls = 0
    /\ listing = NoListing
    /\ KitIdle

\* updates of a stored connector, racing with each other and with
\* put_checkpoint
UpdNext ==
    \/ \E p \in Procs : UpdateConnectorRead(p)
    \/ \E p \in Procs : UpdateConnectorWrite(p)
    \/ \E p \in Procs : PutCheckpointRead(p)
    \/ \E p \in Procs : PutCheckpointWrite(p)
    \/ \E p \in Procs : Return(p)
UpdSpec == ItemInit /\ [][UpdNext]_vars

\* the stored connector of ItemInit, here with checkpoints put, read and
\* deleted one call after the other
CkptInit ==
    /\ origin = "ckpt"
    /\ \E busy \in BOOLEAN :
         /\ conn = StoredItem("d0", busy)
         /\ jobs = IF busy THEN <<[status |-> RUNNING, bid |-> 1, ttl |-> FALSE]>> ELSE <<>>
         /\ batch = IF busy THEN <<[job |-> 1, st |-> "active"]>> ELSE <<>>
    /\ stream = {}
    /\ completions = {}
    /\ proc = [p \in Procs |-> Idle]
    /\ calls = 0
    /\ listing = NoListing
    /\ KitIdle

CkptNext ==
    \/ \E p \in Procs : PutCheckpointRead(p) /\ Sequential'
    \/ \E p \in Procs : PutCheckpointWrite(p) /\ Sequential'
    \/ \E p \in Procs : GetCheckpoint(p) /\ Sequential'
    \/ \E p \in Procs : DeleteCheckpointRead(p) /\ Sequential'
    \/ \E p \in Procs : DeleteCheckpointWrite(p) /\ Sequential'
    \/ \E p \in Procs : Return(p) /\ Sequential'
CkptSpec == CkptInit /\ [][CkptNext]_vars

\* the Batch states before the end of a job, each announced by an event
NonActionable == {"RUNNABLE", "RUNNING"}

\* the Batch service announces a state change of a submitted job that is not
\* its end, or an event arrives that has no jobName
BatchStateChange(h) ==
    /\ NoneDone
    /\ h \in 1..Len(batch)
    /\ batch[h].st # "done"
    /\ \E e \in [job : {batch[h].job}, outcome : NonActionable]
                 \cup [job : {0}, outcome : {SUCCEEDED}] :
         /\ e \notin completions
         /\ completions' = completions \cup {e}
    /\ UNCHANGED <<conn, jobs, stream, batch, proc, calls, origin, kit, listing>>

\* the store of RunningJobStore, with the events of the running job arriving
EventInit ==
    /\ RunningJobStore
    /\ origin = "events"
    /\ proc = [p \in Procs |-> Idle]
    /\ calls = 0
    /\ listing = NoListing
    /\ KitIdle

\* the completion handler on every event of the Batch service
EventNext ==
    \/ \E h \in 1..Len(batch) : BatchStateChange(h)
    \/ \E h \in 1..Len(batch) : BatchFinish(h)
    \/ \E p \in Procs, e \in completions : ProcessBatchEvent(p, e)
    \/ \E p \in Procs : UjsVerify(p)
    \/ \E p \in Procs : UjsGet(p)
    \/ \E p \in Procs : UjsWrite(p)
    \/ \E p \in Procs : UcsRead(p)
    \/ \E p \in Procs : UcsWrite(p)
    \/ \E p \in Procs : Return(p)
EventSpec == EventInit /\ [][EventNext]_vars

\* ------------------------------------------------------- the API responses

\* StartCustomConnectorJobActivity.start and start_custom_connector_job: the
\* response for the outcome of start_job.  The activity catches the three
\* exceptions of the jobs table's DAO; the connector table's DaoConflictError
\* (ConnectorConflict) is none of them and reaches the route's
\* "except Exception", which answers with the generic error.
StartJobResponse(res) ==
    CASE res = OK -> [status_code |-> 201, errorType |-> "-"]
      [] res = NotFound -> [status_code |-> 404, errorType |-> "ResourceNotFoundException"]
      [] res = Conflict -> [status_code |-> 500, errorType |-> "ConflictException"]
      [] res = InternalError -> [status_code |-> 500, errorType |-> "InternalServerError"]
      [] OTHER -> [status_code |-> 500, errorType |-> "InternalServerError"]


\* ----------------------------------------------------------- the builder kit

core == <<conn, jobs, stream, batch, completions, proc, calls, origin>>

\* QBusinessConstants.BATCH_LIMITS, the sizes in MiB
PUT_MAX_DOCS == 10
PUT_MAX_TOTAL_SIZE == 10
PUT_MAX_SINGLE_SIZE == 50
DELETE_MAX_DOCS == 10

\* the limits of the CCFClient
BATCH_PUT_DOCUMENT_MAX_SIZE == 10
BATCH_DELETE_DOCUMENT_MAX_SIZE == 10

DocIds == 1..MaxDocs

\* the file sizes tried, in MiB: small, more than half a batch, too large for
\* the index
Sizes == {1, 6, 60}

\* a document the connector yields for upload, as it is first seen
NewDocument(size) ==
    [kind |-> "local", size |-> size, content |-> "c0", title |-> "title",
     last_updated_at |-> "t0", created_at |-> "t0"]

\* a document the connector yields for deletion
RemovedDocument == [NewDocument(1) EXCEPT !.kind = "removed"]

Min(a, b) == IF a < b THEN a ELSE b

RECURSIVE Ascending(_)
\* the members of a set of ids in the order the connector yields them
Ascending(S) ==
    IF S = {} THEN <<>>
    ELSE LET m == CHOOSE x \in S : \A y \in S : x <= y IN <<m>> \o Ascending(S \ {m})

\* list(self.get_documents_to_add()), list(self.get_documents_to_delete())
CurrentDocs == Ascending({d \in DOMAIN local : local[d].kind = "local"})
DocumentsToDelete == Ascending({d \in DOMAIN local : local[d].kind = "removed"})

\* mutant: the timestamp of the last update is part of the checksum
ChecksumWithTimestamp(id, doc) ==
    [id |-> id, metadata |-> <<doc.title, doc.last_updated_at>>, sha |-> doc.content]

\* Document.get_checksum: the hash of the id, of the metadata without
\* last_updated_at and created_at, and of the hash of the file content; two
\* hashes are equal when what was hashed is
Checksum(id, doc) == [id |-> id, metadata |-> <<doc.title>>, sha |-> doc.content]

\* CCFClient.list_documents: the map document_id -> item
InLedger(L, id) == \E e \in L : e.document_id = id
LedgerChecksum(L, id) == (CHOOSE e \in L : e.document_id = id).checksum

\* mutant: only the documents that are not in the ledger are candidates
IsCandidateNew(L, id) == ~InLedger(L, id)

\* sync: the document is new, or it has changed
IsCandidate(L, id) ==
    \/ ~InLedger(L, id)
    \/ LedgerChecksum(L, id) # Checksum(id, local[id])

RECURSIVE DocsToSync(_, _)
\* sync: the filter of current_docs against the ledger
DocsToSync(docs, L) ==
    IF docs = <<>> THEN <<>>
    ELSE (IF IsCandidate(L, Head(docs)) THEN <<Head(docs)>> ELSE <<>>)
         \o DocsToSync(Tail(docs), L)

\* mutant: a document of any size is prepared
PreparedAnySize(id) == IF local[id].size > PUT_MAX_TOTAL_SIZE THEN "s3" ELSE "blob"

\* _prepare_document_for_upload: None for a document that is skipped, else
\* where its content goes (sync.s3: an S3 client and bucket are configured)
Prepared(id) ==
    IF local[id].size > PUT_MAX_SINGLE_SIZE THEN None
    ELSE IF local[id].size > PUT_MAX_TOTAL_SIZE
           THEN (IF sync.s3 THEN "s3" ELSE None)
    ELSE "blob"

RECURSIVE Payload(_)
\* the bytes of content a batch carries: a blob is in the request, an S3
\* document is a reference
Payload(b) ==
    IF b = <<>> THEN 0
    ELSE (IF Head(b).content = "blob" THEN Head(b).size ELSE 0) + Payload(Tail(b))

\* _qbusiness_batch_put_documents: the call, whose exception is logged
PutCall(b, ok) ==
    [op |-> "put", docs |-> [k \in 1..Len(b) |-> b[k].id], payload |-> Payload(b),
     ok |-> ok]

\* _qbusiness_batch_delete_documents: the call, whose exception is logged
DeleteCall(ids, ok) == [op |-> "delete", docs |-> ids, payload |-> 0, ok |-> ok]


\* the steps of a run that may raise.  Behaviours of the run as a whole
\* (origin "run") have them raise; in the others the service calls of the
\* run, the calls to the documents API apart, succeed.
Faults(step) == IF origin = "run" THEN {"none", step} ELSE {"none"}

\* mutant: the exception leaves sync, no stop is attempted
RaisedNoStop(s) ==
    [s EXCEPT !.pc = "idle", !.runs = @ + 1, !.edited = FALSE, !.ccf_docs = {},
              !.raised = TRUE, !.last = "raised", !.items = <<>>, !.pos = 0]

\* an exception in sync: the finally clause stops the sync job
Raised(s) == [s EXCEPT !.pc = "stop", !.raised = TRUE, !.items = <<>>, !.pos = 0]

\* sync, up to the candidates: start_data_source_sync_job, the two lists of
\* the connector, list_documents and the comparison of the checksums.  When
\* the start raises, sync raises at once; when a later step raises
\* (get_documents_to_add, get_checksum, list_documents), the finally clause
\* is next
SyncStart ==
    /\ sync.pc = "idle"
    /\ sync.runs < MaxRuns
    /\ \E f \in Faults("start") \cup Faults("list") :
         LET cands == DocsToSync(CurrentDocs, ledger)
             dels == DocumentsToDelete
             fresh == [sync EXCEPT !.ccf_docs = {}, !.cands = <<>>, !.dels = <<>>,
                                   !.i = 1, !.batch = <<>>, !.acc = 0, !.items = <<>>,
                                   !.pos = 0, !.raised = FALSE, !.stops = 0]
         IN  sync' =
               CASE f = "start" ->
                      [fresh EXCEPT !.started = FALSE, !.raised = TRUE, !.runs = @ + 1,
                                    !.edited = FALSE, !.last = "raised"]
                 [] f = "list" -> Raised([fresh EXCEPT !.started = TRUE])
                 [] OTHER ->
                      [fresh EXCEPT !.started = TRUE,
                                    !.pc = IF cands # <<>> THEN "put"
                                           ELSE IF dels # <<>> THEN "delete"
                                           ELSE "stop",
                                    !.ccf_docs = ledger,
                                    !.cands = cands, !.dels = dels]
    /\ indexCalls' = <<>>
    /\ ledgerCalls' = <<>>
    /\ skipped' = {}
    /\ UNCHANGED <<local, ledger, core, listing>>

\* _batch_put_documents: one turn of the loop over the candidates
PutDocument ==
    /\ sync.pc = "put"
    /\ sync.i <= Len(sync.cands)
    /\ \E f \in Faults("prepare") :
       LET d == sync.cands[sync.i]
           b == Append(sync.batch,
                       [id |-> d, content |-> Prepared(d), size |-> local[d].size])
           acc == sync.acc + local[d].size
       IN  IF f = "prepare"
             \* infer_content_type raises UnsupportedDocumentError
             THEN /\ sync' = Raised(sync)
                  /\ UNCHANGED <<skipped, indexCalls>>
           ELSE IF Prepared(d) = None
             THEN /\ skipped' = skipped \cup {d}
                  /\ sync' = [sync EXCEPT !.i = @ + 1]
                  /\ UNCHANGED indexCalls
             ELSE /\ skipped' = skipped
                  /\ IF Len(b) = PUT_MAX_DOCS \/ acc >= PUT_MAX_TOTAL_SIZE
                       THEN /\ \E ok \in BOOLEAN :
                                 indexCalls' = Append(indexCalls, PutCall(b, ok))
                            /\ sync' = [sync EXCEPT !.i = @ + 1, !.batch = <<>>,
                                                    !.acc = 0]
                       ELSE /\ sync' = [sync EXCEPT !.i = @ + 1, !.batch = b,
                                                    !.acc = acc]
                            /\ UNCHANGED indexCalls
    /\ UNCHANGED <<local, ledger, ledgerCalls, core, listing>>

\* _batch_put_documents after the loop: the remaining documents are sent;
\* sync then builds checksums_to_update from every candidate
PutRemaining ==
    /\ sync.pc = "put"
    /\ sync.i > Len(sync.cands)
    /\ IF sync.batch # <<>>
         THEN \E ok \in BOOLEAN : indexCalls' = Append(indexCalls, PutCall(sync.batch, ok))
         ELSE UNCHANGED indexCalls
    /\ sync' = [sync EXCEPT
                  !.pc = "ccf_put", !.batch = <<>>, !.acc = 0, !.pos = 0,
                  !.items = [k \in 1..Len(sync.cands) |->
                               [document_id |-> sync.cands[k],
                                checksum |-> Checksum(sync.cands[k],
                                                      local[sync.cands[k]])]]]
    /\ UNCHANGED <<local, ledger, ledgerCalls, skipped, core, listing>>

\* mutant: the batch writer stores nothing
PutItemsNothing(L, items) == L

\* CustomConnectorDocumentsDao.batch_put_documents: the items put
PutItems(L, items) ==
    {e \in L : \A k \in 1..Len(items) : items[k].document_id # e.document_id}
        \cup {items[k] : k \in 1..Len(items)}

\* CustomConnectorDocumentsDao.batch_delete_documents: the items deleted
DeleteItems(L, ids) == {e \in L : \A k \in 1..Len(ids) : ids[k] # e.document_id}

\* BatchPutCustomConnectorDocumentsActivity.put and the activity of the
\* delete: the response when the batch writer wrote k of the n items before
\* a ClientError (k = n: no error); the body of a success is empty
BatchResponse(c, n, k) ==
    IF ~Present(c) THEN [status_code |-> 404, errorType |-> "ResourceNotFoundException",
                         failed |-> <<>>]
    ELSE IF k = n THEN [status_code |-> 202, errorType |-> "-", failed |-> <<>>]
    ELSE [status_code |-> 500, errorType |-> "InternalServerError", failed |-> <<>>]

\* mutant: everything that is left goes into one batch
ChunkWhole(items, pos, size) == SubSeq(items, pos + 1, Len(items))

\* mutant: a batch begins with the last item of the batch before it
ChunkOverlapping(items, pos, size) ==
    SubSeq(items, IF pos = 0 THEN 1 ELSE pos, Min(pos + size, Len(items)))

\* items[pos : pos + size], the slice of a batch
Chunk(items, pos, size) == SubSeq(items, pos + 1, Min(pos + size, Len(items)))

\* the sync after its calls to the ledger: the deletions follow the upserts
AfterPuts(s) ==
    IF s.dels # <<>> THEN [s EXCEPT !.pc = "delete", !.i = 1, !.items = <<>>, !.pos = 0]
    ELSE [s EXCEPT !.pc = "stop", !.items = <<>>, !.pos = 0]

\* CCFClient.batch_put_documents: one turn of the loop over the batches, which
\* is one call of the documents API, served by batch_put_documents
CcfBatchPut ==
    /\ sync.pc = "ccf_put"
    /\ IF sync.pos >= Len(sync.items)
         THEN /\ sync' = AfterPuts(sync)
              /\ UNCHANGED <<ledger, ledgerCalls>>
         ELSE LET chunk == Chunk(sync.items, sync.pos, BATCH_PUT_DOCUMENT_MAX_SIZE)
                  n == Len(chunk)
              IN  \E k \in IF Present(conn) THEN 0..n ELSE {0} :
                    LET r == BatchResponse(conn, n, k) IN
                    /\ ledger' = PutItems(ledger, SubSeq(chunk, 1, k))
                    /\ ledgerCalls' = Append(ledgerCalls,
                                             [op |-> "put", items |-> chunk,
                                              written |-> k, response |-> r])
                    /\ sync' = IF r.status_code = 202
                                 THEN [sync EXCEPT !.pos = @ + n]
                                 ELSE Raised(sync)
    /\ UNCHANGED <<local, indexCalls, skipped, core, listing>>

\* _batch_delete_documents: the next batch of ids is sent to the index
IndexDelete ==
    /\ sync.pc = "delete"
    /\ IF sync.i > Len(sync.dels)
         THEN /\ sync' = [sync EXCEPT !.pc = "ccf_del", !.items = sync.dels, !.pos = 0]
              /\ UNCHANGED indexCalls
         ELSE LET ids == Chunk(sync.dels, sync.i - 1, DELETE_MAX_DOCS)
              IN  /\ \E ok \in BOOLEAN :
                       indexCalls' = Append(indexCalls, DeleteCall(ids, ok))
                  /\ sync' = [sync EXCEPT !.i = @ + Len(ids)]
    /\ UNCHANGED <<local, ledger, ledgerCalls, skipped, core, listing>>

\* CCFClient.batch_delete_documents: one turn of the loop over the batches,
\* served by batch_delete_documents
CcfBatchDelete ==
    /\ sync.pc = "ccf_del"
    /\ IF sync.pos >= Len(sync.items)
         THEN /\ sync' = [sync EXCEPT !.pc = "stop", !.items = <<>>, !.pos = 0]
              /\ UNCHANGED <<ledger, ledgerCalls>>
         ELSE LET chunk == Chunk(sync.items, sync.pos, BATCH_DELETE_DOCUMENT_MAX_SIZE)
                  n == Len(chunk)
              IN  \E k \in IF Present(conn) THEN 0..n ELSE {0} :
                    LET r == BatchResponse(conn, n, k) IN
                    /\ ledger' = DeleteItems(ledger, SubSeq(chunk, 1, k))
                    /\ ledgerCalls' = Append(ledgerCalls,
                                             [op |-> "delete", items |-> chunk,
                                              written |-> k, response |-> r])
                    /\ sync' = IF r.status_code = 202
                                 THEN [sync EXCEPT !.pos = @ + n]
                                 ELSE Raised(sync)
    /\ UNCHANGED <<local, indexCalls, skipped, core, listing>>

\* sync, the finally clause: stop_data_source_sync_job; the run is over
SyncStop ==
    /\ sync.pc = "stop"
    /\ \E f \in Faults("stop") :
         sync' = [sync EXCEPT !.pc = "idle", !.runs = @ + 1, !.edited = FALSE,
                              !.ccf_docs = {}, !.stops = @ + 1,
                              !.last = IF sync.raised \/ f = "stop"
                                         THEN "raised" ELSE "completed"]
    /\ UNCHANGED <<local, ledger, indexCalls, ledgerCalls, skipped, core, listing>>

\* between two runs one document may change.  Here it is saved again with the
\* same content: only last_updated_at and created_at change
Touch(d) ==
    /\ sync.pc = "idle"
    /\ sync.runs \in 1..(MaxRuns - 1)
    /\ ~sync.edited
    /\ d \in DOMAIN local
    /\ local[d].kind = "local"
    /\ local[d].last_updated_at = "t0"
    /\ local' = [local EXCEPT ![d].last_updated_at = "t1", ![d].created_at = "t1"]
    /\ sync' = [sync EXCEPT !.edited = TRUE]
    /\ UNCHANGED <<ledger, indexCalls, ledgerCalls, skipped, core, listing>>

\* between two runs the content of a document changes
Edit(d) ==
    /\ sync.pc = "idle"
    /\ sync.runs \in 1..(MaxRuns - 1)
    /\ ~sync.edited
    /\ d \in DOMAIN local
    /\ local[d].kind = "local"
    /\ local[d].content = "c0"
    /\ local' = [local EXCEPT ![d].content = "c1", ![d].last_updated_at = "t1"]
    /\ sync' = [sync EXCEPT !.edited = TRUE]
    /\ UNCHANGED <<ledger, indexCalls, ledgerCalls, skipped, core, listing>>

\* the connector runs in the job of RunningJobStore; the documents removed at
\* the source were synced by an earlier run, the others are new
SyncInit ==
    /\ RunningJobStore
    /\ origin = "sync"
    /\ proc = [p \in Procs |-> Idle]
    /\ calls = 0
    /\ listing = NoListing
    /\ local \in [DocIds -> {NewDocument(s) : s \in Sizes} \cup {RemovedDocument}]
    /\ ledger = {[document_id |-> d, checksum |-> Checksum(d, NewDocument(1))] :
                   d \in {x \in DocIds : local[x].kind = "removed"}}
    /\ sync = SyncIdle
    /\ indexCalls = <<>>
    /\ ledgerCalls = <<>>
    /\ skipped = {}

SyncNext ==
    \/ SyncStart
    \/ PutDocument
    \/ PutRemaining
    \/ CcfBatchPut
    \/ IndexDelete
    \/ CcfBatchDelete
    \/ SyncStop
    \/ \E d \in DocIds : Touch(d)
    \/ \E d \in DocIds : Edit(d)
SyncSpec == SyncInit /\ [][SyncNext]_vars

\* the connector of SyncInit with small documents; the steps of its runs may
\* raise
RunInit ==
    /\ RunningJobStore
    /\ origin = "run"
    /\ proc = [p \in Procs |-> Idle]
    /\ calls = 0
    /\ listing = NoListing
    /\ local \in [DocIds -> {NewDocument(1), RemovedDocument}]
    /\ ledger = {[document_id |-> d, checksum |-> Checksum(d, NewDocument(1))] :
                   d \in {x \in DocIds : local[x].kind = "removed"}}
    /\ sync = SyncIdle
    /\ indexCalls = <<>>
    /\ ledgerCalls = <<>>
    /\ skipped = {}

RunNext ==
    \/ SyncStart
    \/ PutDocument
    \/ PutRemaining
    \/ CcfBatchPut
    \/ IndexDelete
    \/ CcfBatchDelete
    \/ SyncStop
RunSpec == RunInit /\ [][RunNext]_vars

\* the CCFClient is given 0 to MaxItems items to put or to delete
ChunkInit ==
    /\ RunningJobStore
    /\ origin = "chunk"
    /\ proc = [p \in Procs |-> Idle]
    /\ calls = 0
    /\ listing = NoListing
    /\ local = <<>>
    /\ \E n \in 0..MaxItems :
         LET items == [k \in 1..n |->
                         [document_id |-> k, checksum |-> Checksum(k, NewDocument(1))]]
         IN  \/ /\ ledger = {}
                /\ sync = [SyncIdle EXCEPT !.pc = "ccf_put", !.items = items,
                                           !.started = TRUE]
             \/ /\ ledger = {items[k] : k \in 1..n}
                /\ sync = [SyncIdle EXCEPT !.pc = "ccf_del",
                                           !.items = [k \in 1..n |-> k],
                                           !.started = TRUE]
    /\ indexCalls = <<>>
    /\ ledgerCalls = <<>>
    /\ skipped = {}

ChunkNext ==
    \/ CcfBatchPut
    \/ CcfBatchDelete
    \/ SyncStop
ChunkSpec == ChunkInit /\ [][ChunkNext]_vars


\* ------------------------------------------------------------- list_jobs

\* the max_results tried
PageSizes == 1..3

\* a job of another connector of the tenant
OtherJob == [job_id |-> 100, connector_id |-> "cc-other", status |-> STOPPED]

\* GSI1, keyed by (custom_connector_arn_prefix, connector_id), in key order:
\* the jobs of the connector, then those of the other connector
Index ==
    [j \in 1..Len(jobs) |->
        [job_id |-> j, connector_id |-> NewConnector.connector_id,
         status |-> jobs[j].status]] \o listing.others

\* the key of an index item: the keys of the table and of the index
KeyOf(item) ==
    [custom_connector_arn_prefix |-> NewConnector.arn, job_id |-> item.job_id,
     connector_id |-> item.connector_id]

\* json.dumps of a key of string attributes, and json.loads of the token
Dumps(key) == <<"json", key.custom_connector_arn_prefix, key.connector_id, key.job_id>>
Loads(token) ==
    [custom_connector_arn_prefix |-> token[2], connector_id |-> token[3],
     job_id |-> token[4]]

\* table.query on GSI1: of the items with the key connector_id, those after
\* ExclusiveStartKey (a set: empty when not given), Limit of them at most;
\* LastEvaluatedKey when Limit stopped the query, which the service may also
\* return (more) when the Limit-th item was the last one
Query(connector_id, start, limit, more) ==
    LET range == SelectSeq(Index, LAMBDA it : it.connector_id = connector_id)
        from == IF start = {} THEN 1
                ELSE 1 + CHOOSE k \in 1..Len(range) : KeyOf(range[k]) \in start
        to == Min(from + limit - 1, Len(range))
        items == SubSeq(range, from, to)
    IN  [Items |-> items,
         LastEvaluatedKey |->
             IF Len(items) = limit /\ (to < Len(range) \/ more)
               THEN {KeyOf(items[Len(items)])} ELSE {}]

\* mutant: the status filter is not applied
MatchesAny(item, status) == TRUE

\* list_jobs: request.status and item.get("status") != request.status.value
Matches(item, status) == status = None \/ item.status = status

\* list_jobs: one call, one page.  The connector is verified, the index is
\* queried from the token of the request, the items of the page are filtered
\* and the key the query ended at becomes the next token
ListJobs ==
    /\ listing.pc = "paging"
    /\ IF ~Present(conn)
         THEN listing' = [listing EXCEPT !.pc = "failed"]
         ELSE \E more \in BOOLEAN :
                LET start == {Loads(t) : t \in listing.next_token}
                    response == Query(conn.connector_id, start, listing.max_results, more)
                    page == [jobs |-> SelectSeq(response.Items,
                                                LAMBDA it : Matches(it, listing.status)),
                             next_token |-> {Dumps(k) : k \in response.LastEvaluatedKey}]
                IN  listing' = [listing EXCEPT
                                  !.pages = Append(@, page),
                                  !.next_token = page.next_token,
                                  !.pc = IF page.next_token = {} THEN "done" ELSE "paging"]
    /\ UNCHANGED <<core, kit>>

\* the jobs of the connector have ended one after the other, as in
\* test_list_jobs_basic_and_pagination, and a client starts to list them
ListInit ==
    /\ origin = "list"
    /\ \E n \in 0..MaxListed : \E f \in [1..n -> {STOPPED, SUCCEEDED}] :
         /\ jobs = [j \in 1..n |-> [status |-> f[j], bid |-> j, ttl |-> TRUE]]
         /\ batch = [j \in 1..n |-> [job |-> j, st |-> "done"]]
         /\ conn = IF n = 0 THEN NewConnector
                   ELSE [NewConnector EXCEPT !.version = InitialVersion + 2 * n,
                                             !.updated_at = Now]
    /\ stream = {}
    /\ completions = {}
    /\ proc = [p \in Procs |-> Idle]
    /\ calls = 0
    /\ KitIdle
    /\ \E o \in {<<>>, <<OtherJob>>}, st \in {None, STOPPED}, m \in PageSizes :
         listing = [NoListing EXCEPT !.pc = "paging", !.others = o, !.status = st,
                                     !.max_results = m]

ListNext == ListJobs
ListSpec == ListInit /\ [][ListNext]_vars


\* a connector with 0 to MaxItems documents: all of them new, the second one
\* of any of the sizes, or all of them synced by an earlier run and removed at
\* the source since
BatchInit ==
    /\ RunningJobStore
    /\ origin = "batch"
    /\ proc = [p \in Procs |-> Idle]
    /\ calls = 0
    /\ listing = NoListing
    /\ \E n \in 0..MaxItems :
         \/ /\ \E z \in Sizes :
                 local = [d \in 1..n |-> NewDocument(IF d = 2 THEN z ELSE 1)]
            /\ ledger = {}
         \/ /\ local = [d \in 1..n |-> RemovedDocument]
            /\ ledger = {[document_id |-> d, checksum |-> Checksum(d, NewDocument(1))] :
                           d \in 1..n}
    /\ sync = SyncIdle
    /\ indexCalls = <<>>
    /\ ledgerCalls = <<>>
    /\ skipped = {}

\* a run of sync up to the end of its calls to the index
BatchNext ==
    \/ SyncStart
    \/ PutDocument
    \/ PutRemaining
    \/ IndexDelete
BatchSpec == BatchInit /\ [][BatchNext]_vars


\* ------------------------------------------------------------- liveness

\* the store after create_connector and start_job: the connector is IN_USE at
\* version 2, the job STARTED and its stream record pending
StartedJobStore ==
    /\ conn = [NewConnector EXCEPT !.status = IN_USE, !.version = 2, !.updated_at = Now]
    /\ jobs = <<NewJob>>
    /\ stream = Emitted(1, NewJob)
    /\ batch = <<>>
    /\ completions = {}

LiveInit ==
    /\ \/ StartedJobStore
       \/ RunningJobStore
    /\ origin = "live"
    /\ proc = [p \in Procs |-> Idle]
    /\ calls = 0
    /\ listing = NoListing
    /\ KitIdle

\* a job on its way: the orchestrator, the Batch service, the completion
\* handler and the StopJob calls of the user
LiveNext ==
    \/ \E p \in Procs, j \in JobIds : StopJob(p, j)
    \/ \E p \in Procs, e \in stream : RecordHandler(p, e)
    \/ \E p \in Procs : SubmitJob(p)
    \/ \E p \in Procs : CancelJob(p)
    \/ \E h \in 1..Len(batch) : BatchFinish(h)
    \/ \E p \in Procs, e \in completions : ProcessBatchEvent(p, e)
    \/ \E p \in Procs : UjsVerify(p)
    \/ \E p \in Procs : UjsGet(p)
    \/ \E p \in Procs : UjsWrite(p)
    \/ \E p \in Procs : UcsRead(p)
    \/ \E p \in Procs : UcsWrite(p)
    \/ \E p \in Procs : Return(p)

\* an invocation that has begun runs to its end; a pending stream record and a
\* pending Batch event are handed to their handler; the Batch service ends
\* every job it was given.  Nothing obliges a user to call StopJob.
LiveFairness ==
    /\ \A p \in Procs :
         /\ WF_vars(SubmitJob(p))
         /\ WF_vars(CancelJob(p))
         /\ WF_vars(UjsVerify(p))
         /\ WF_vars(UjsGet(p))
         /\ WF_vars(UjsWrite(p))
         /\ WF_vars(UcsRead(p))
         /\ WF_vars(UcsWrite(p))
         /\ WF_vars(Return(p))
    /\ WF_vars(\E p \in Procs, e \in stream : RecordHandler(p, e) /\ e \notin stream')
    /\ WF_vars(\E p \in Procs, e \in completions :
                  ProcessBatchEvent(p, e) /\ e \notin completions')
    /\ WF_vars(\E h \in 1..Len(batch) : BatchFinish(h))

LiveSpec == LiveInit /\ [][LiveNext]_vars /\ LiveFairness


\* ------------------------------------------------------------------ claims

AllIdle == \A p \in Procs : IsIdle(p)
Stepped(p) == proc'[p] # proc[p]
ActiveJobs == {j \in JobIds : jobs[j].status \in NonTerminal}
WritePcs == {"cp_write", "dcp_write", "uc_write", "ucs_write"}
\* nothing is running, pending or still to be emitted
Quiescent ==
    /\ AllIdle
    /\ stream = {}
    /\ completions = {}
    /\ \A h \in 1..Len(batch) : batch[h].st = "done"

\* C1: in every reachable state the connector has at most one job whose status
\* is STARTED, RUNNING or STOPPING.
CE_C1_MutualExclusion == Cardinality(ActiveJobs) <= 1

\* C2: a StartJob whose get_connector reads status IN_USE ends at once with
\* Conflict, and writes neither the job table nor the connector.
Thm_C2_StartJobInUse ==
    [][\A p \in Procs :
         (IsIdle(p) /\ proc'[p].op = "StartJob" /\ Present(conn) /\ conn.status = IN_USE)
         => /\ proc'[p].pc = "done"
            /\ proc'[p].res = Conflict
            /\ jobs' = jobs
            /\ stream' = stream
            /\ conn' = conn]_vars

W_C2_StartJobInUse ==
    \E p \in Procs :
        /\ proc[p].op = "StartJob" /\ proc[p].pc = "done" /\ proc[p].res = Conflict
        /\ conn.status = IN_USE /\ Len(jobs) = 1

\* C3: once a job's stored status is STOPPED or FAILED, no step changes it.
CE_C3_TerminalIsFinal ==
    [][\A j \in JobIds :
         jobs[j].status \in {STOPPED, FAILED} => jobs'[j].status = jobs[j].status]_vars

\* C4 as stated: with no concurrent writer, an update_job_status (from StopJob or
\* the completion handler) on a job whose status is STOPPED or FAILED ends with
\* Conflict, the job table and the connector unchanged.
CE_C4_TerminalConflict ==
    [][\A p \in Procs :
         (/\ proc[p].pc \in {"ujs_verify", "ujs_get"}
          /\ proc[p].op \in {"StopJob", "Completion"}
          /\ proc[p].job \in JobIds
          /\ jobs[proc[p].job].status \in {STOPPED, FAILED}
          /\ proc'[p].pc = "done")
         => /\ proc'[p].res = Conflict
            /\ jobs' = jobs
            /\ conn' = conn]_vars

\* C4 amended: with no concurrent writer, an update_job_status on a job whose
\* status is STOPPED or FAILED never reaches its write: it ends with Conflict
\* when the connector exists and with NotFound when the connector has been
\* deleted, and the job table and the connector are unchanged.
Thm_C4_TerminalRejected ==
    [][\A p \in Procs :
         (/\ proc[p].pc \in {"ujs_verify", "ujs_get"}
          /\ Stepped(p)
          /\ proc[p].job \in JobIds
          /\ jobs[proc[p].job].status \in {STOPPED, FAILED})
         => /\ jobs' = jobs
            /\ conn' = conn
            /\ proc'[p].pc # "ujs_write"
            /\ proc[p].pc = "ujs_get" => proc'[p] = AfterUjs(proc[p], Conflict)
            /\ (proc[p].op \in {"StopJob", "Completion"} /\ proc'[p].pc = "done")
                 => proc'[p].res = IF Present(conn) THEN Conflict ELSE NotFound]_vars

W_C4_TerminalRejected ==
    \E p \in Procs :
        /\ proc[p].op = "StopJob" /\ proc[p].pc = "done" /\ proc[p].res = Conflict
        /\ jobs[proc[p].job].status \in {STOPPED, FAILED}
        /\ jobs[proc[p].job].ttl

\* C5: a job whose stored status is SUCCEEDED keeps it: no update_job_status
\* (StopJob included) changes it.
CE_C5_SucceededIsFinal ==
    [][\A j \in JobIds :
         jobs[j].status = SUCCEEDED => jobs'[j].status = SUCCEEDED]_vars

\* C6: when nothing is running or pending any more and every job of the
\* connector is STOPPED, FAILED or SUCCEEDED, the connector (if it still exists)
\* is AVAILABLE.
CE_C6_TerminalReleases ==
    (Quiescent /\ JobIds # {} /\ ActiveJobs = {} /\ Present(conn))
    => conn.status = AVAILABLE

\* C7: the connector is created with version 1 and every step that changes the
\* stored connector increases its version by exactly 1.
Thm_C7_VersionStep ==
    [][/\ (conn.st = "absent" /\ Present(conn')) =>
            (conn'.version = 1 /\ conn'.status = AVAILABLE)
       /\ (Present(conn) /\ Present(conn') /\ conn' # conn) =>
            conn'.version = conn.version + 1]_vars

W_C7_VersionStep ==
    /\ origin = "fresh" /\ Present(conn)
    /\ conn.version = 3 /\ conn.cp = 1 /\ conn.status = IN_USE

\* C8: a conditional connector write succeeds exactly when the version it read
\* is still the stored one; it then makes every other write that read the same
\* version stale.  A stale write fails with Conflict, leaves the connector
\* unchanged and is not attempted again; a version read never exceeds the
\* stored one, so a stale write stays stale.
Thm_C8_OneWriterWins ==
    /\ [](\A p \in Procs :
            (proc[p].pc \in WritePcs /\ Present(conn)) => proc[p].rv <= conn.version)
    /\ [][\A p \in Procs :
            (proc[p].pc \in WritePcs /\ Stepped(p)) =>
              IF Present(conn) /\ proc[p].rv = conn.version
                THEN /\ conn'.version = conn.version + 1
                     /\ \A q \in Procs \ {p} :
                          (proc[q].pc \in WritePcs /\ proc[q].rv = proc[p].rv)
                          => conn'.version # proc'[q].rv
                ELSE /\ conn' = conn
                     /\ proc'[p].pc \notin WritePcs \cup {"ucs_read"}
                     /\ IF proc[p].pc = "ucs_write"
                          THEN proc'[p] = AfterUcs(proc[p], ConnectorConflict)
                          ELSE proc'[p].pc = "done" /\ proc'[p].res = Conflict]_vars

W_C8_OneWriterWins ==
    \E p \in Procs :
        /\ proc[p].op = "PutCheckpoint" /\ proc[p].pc = "done" /\ proc[p].res = Conflict
        /\ Present(conn) /\ conn.cp = 0 /\ conn.version = 2

\* C9: the happy path from the empty store, one invocation at a time.
HappyCreated == (origin = "fresh" /\ calls = 0 /\ Present(conn))
HappyStarted == (origin = "fresh" /\ calls = 1 /\ AllIdle /\ Len(jobs) = 1)
HappyRunning ==
    (origin = "fresh" /\ calls = 2 /\ AllIdle /\ Len(jobs) = 1 /\ jobs[1].status = RUNNING)
HappySucceeded ==
    (origin = "fresh" /\ calls = 3 /\ AllIdle /\ Len(jobs) = 1 /\ jobs[1].status = SUCCEEDED)

Thm_C10_StopScenario ==
    [][\A p \in Procs :
         (proc[p].pc = "ujs_write" /\ Stepped(p)) =>
           LET j == proc[p].job IN
           /\ (proc[p].op = "StopJob" /\ jobs[j].status = RUNNING) =>
                 jobs'[j].status = STOPPING
           /\ proc[p].op = "Completion" =>
                 jobs'[j].status =
                   IF proc[p].ev = SUCCEEDED THEN SUCCEEDED
                   ELSE IF jobs[j].status = STOPPING THEN STOPPED ELSE FAILED]_vars

W_C10_StopScenario ==
    \E p \in Procs :
        /\ proc[p].op = "Completion" /\ proc[p].pc = "done" /\ proc[p].res = OK
        /\ proc[p].ev = FAILED
        /\ jobs[proc[p].job].status = STOPPED
        /\ conn.status = AVAILABLE

\* the submissions the orchestrator made to the Batch service for job j
Submissions(j) == {h \in 1..Len(batch) : batch[h].job = j}

\* C11: external work is submitted at most once per job, however often its
\* STARTED record is delivered: a delivery that finds the job no longer STARTED
\* submits nothing.
CE_C11_SubmitOnce ==
    \A j \in JobIds : Cardinality(Submissions(j)) <= 1

\* C12: a completion event for job J that is processed while another job of the
\* connector is non-terminal (J ended earlier and the connector was taken by a
\* newer job) changes no job's status and not the connector's status.
CE_C12_DuplicateCompletion ==
    [][\A p \in Procs :
         (/\ proc[p].op = "Completion"
          /\ Stepped(p)
          /\ \E j2 \in JobIds \ {proc[p].job} : jobs[j2].status \in NonTerminal)
         => /\ conn'.status = conn.status
            /\ \A j \in JobIds : jobs'[j].status = jobs[j].status]_vars

\* the order of the job state machine: STARTED < RUNNING < STOPPING < ended
StatusRank(s) ==
    CASE s = STARTED -> 0
      [] s = RUNNING -> 1
      [] s = STOPPING -> 2
      [] OTHER -> 3

\* C13: every change of the status of a job that has not ended moves forward in
\* the order STARTED < RUNNING < STOPPING < {STOPPED, FAILED, SUCCEEDED}; a
\* STOPPING job is never set to RUNNING.
CE_C13_Monotonic ==
    [][\A j \in JobIds :
         (jobs[j].status \in NonTerminal /\ jobs'[j].status # jobs[j].status)
         => StatusRank(jobs'[j].status) > StatusRank(jobs[j].status)]_vars

\* C14: delete_connector deletes exactly when the connector exists with a status
\* other than IN_USE, in the one step that checks it; otherwise it changes
\* nothing and ends with Conflict if get_connector finds the connector and
\* NotFound if not.  No step deletes a connector whose stored status is IN_USE.
Thm_C14_DeleteConnector ==
    [][/\ \A p \in Procs :
            (IsIdle(p) /\ proc'[p].op = "DeleteConnector") =>
              IF Present(conn) /\ conn.status # IN_USE
                THEN conn' = DeletedConnector /\ proc'[p].pc = "done" /\ proc'[p].res = OK
                ELSE conn' = conn /\ jobs' = jobs /\ proc'[p].pc = "dc_get"
       /\ \A p \in Procs :
            (proc[p].pc = "dc_get" /\ Stepped(p)) =>
              /\ conn' = conn /\ jobs' = jobs
              /\ proc'[p].pc = "done"
              /\ proc'[p].res = IF Present(conn) THEN Conflict ELSE NotFound
       /\ (Present(conn) /\ conn.status = IN_USE) => Present(conn')]_vars

W_C14_DeleteConnector ==
    \E p \in Procs :
        /\ proc[p].op = "DeleteConnector" /\ proc[p].pc = "done" /\ proc[p].res = Conflict
        /\ Present(conn) /\ conn.status = IN_USE
        /\ \E q \in Procs : proc[q].op = "StartJob" /\ proc[q].pc = "sj_put"

\* C15: when the put_item of start_job fails, start_job calls
\* update_connector_status(AVAILABLE); from then on the invocation inserts no
\* job row, a successful conditional write leaves the connector AVAILABLE, and
\* the invocation ends with InternalError whatever the revert did.
Thm_C15_StartJobRollback ==
    [][\A p \in Procs :
         /\ (proc[p].pc = "sj_put" /\ Stepped(p) /\ jobs' = jobs) =>
               /\ proc'[p].pc = "ucs_read"
               /\ proc'[p].cstat = AVAILABLE
               /\ proc'[p].ctx = "rollback"
         /\ (proc[p].op = "StartJob" /\ proc[p].ctx = "rollback" /\ Stepped(p)) =>
               /\ jobs' = jobs
               /\ proc'[p].pc \in {"ucs_write", "done"}
               /\ proc'[p].pc = "done" =>
                    (proc'[p].res = InternalError /\ proc'[p].job = 0)
               /\ (proc[p].pc = "ucs_write" /\ Present(conn)
                     /\ conn.version = proc[p].rv) =>
                    (conn'.status = AVAILABLE /\ conn'.version = conn.version + 1)
               /\ (proc[p].pc = "ucs_write" /\ ~(Present(conn)
                     /\ conn.version = proc[p].rv)) => conn' = conn]_vars

W_C15_StartJobRollback ==
    \E p \in Procs :
        /\ proc[p].op = "StartJob" /\ proc[p].pc = "done" /\ proc[p].res = InternalError
        /\ conn.status = AVAILABLE /\ conn.version = 3 /\ jobs = <<>>

\* the revert itself failed: the caller still gets InternalError
W_C15_RevertFailed ==
    \E p \in Procs :
        /\ proc[p].op = "StartJob" /\ proc[p].pc = "done" /\ proc[p].res = InternalError
        /\ Present(conn) /\ conn.status = IN_USE /\ jobs = <<>>

IsOrch(q) == q.op = "Orchestrator"
\* the orchestrator invocation q' has just entered its compensation
EntersCompensation(q, bid) ==
    /\ q.phase = "comp" /\ q.pc = "ujs_verify"
    /\ q.rstat = FAILED /\ q.rbid = bid

\* C16: a failed step of handle_job_start (connector fetch, submission, RUNNING
\* update) or a failed cancel_job in handle_job_stop starts the compensation:
\* update_job_status(FAILED), whose write stores FAILED with a TTL, and, once
\* that call has returned, update_connector_status(AVAILABLE), whose write
\* leaves the connector AVAILABLE.  Whatever the compensation raises, the
\* invocation returns normally.
Thm_C16_OrchestratorCompensation ==
    [][\A p \in Procs :
         LET q == proc[p]
             r == proc'[p] IN
         /\ (IsIdle(p) /\ IsOrch(r) /\ r.pc = "hs_submit") => Present(conn)
         /\ (IsIdle(p) /\ IsOrch(r) /\ r.phase = "comp") =>
               (~Present(conn) /\ EntersCompensation(r, 0))
         /\ (IsOrch(q) /\ q.pc = "hs_submit" /\ Stepped(p)) =>
               \/ batch' # batch /\ r.phase = "main" /\ r.rstat = RUNNING
               \/ batch' = batch /\ EntersCompensation(r, 0)
         /\ (IsOrch(q) /\ q.phase = "main" /\ q.rstat = RUNNING /\ Stepped(p)) =>
               \/ r.phase = "main" /\ r.pc \in {"ujs_get", "ujs_write"}
               \/ q.pc = "ujs_write" /\ r.pc = "done" /\ jobs'[q.job].status = RUNNING
               \/ q.pc # "ujs_write" /\ EntersCompensation(r, 0) /\ jobs' = jobs
         /\ (IsOrch(q) /\ q.pc = "hs_cancel" /\ Stepped(p)) =>
               \/ r.pc = "done" /\ jobs' = jobs /\ conn' = conn
               \/ batch' = batch /\ EntersCompensation(r, q.rbid)
         /\ (IsOrch(q) /\ q.phase = "comp" /\ q.pc = "ujs_write" /\ Stepped(p)) =>
               /\ jobs'[q.job].status = FAILED /\ jobs'[q.job].ttl
               /\ r.pc = "ucs_read" /\ r.cstat = AVAILABLE
         /\ (IsOrch(q) /\ q.phase = "comp" /\ q.pc = "ucs_write" /\ Stepped(p)
               /\ Present(conn) /\ conn.version = q.rv) =>
               /\ conn'.status = AVAILABLE
               /\ q.ctx = "ujs" =>
                    (r.pc = "ucs_read" /\ r.cstat = AVAILABLE /\ r.ctx = "tail")
               /\ q.ctx = "tail" => r.pc = "done"
         /\ (IsOrch(r) /\ r.pc = "done") => r.res = OK]_vars

W_C16_OrchestratorCompensation ==
    \E p \in Procs :
        /\ IsOrch(proc[p]) /\ proc[p].pc = "done"
        /\ origin = "fresh" /\ batch = <<>>
        /\ jobs[proc[p].job].status = FAILED
        /\ conn.status = AVAILABLE /\ conn.version = 4

\* C17: handling a STOPPING record with no batch_job_id returns at once; with a
\* handle it goes on to cancel_job.  Neither step writes the job table or the
\* connector; a cancel request that was accepted is followed by the return, and
\* only one that failed by the compensation.
Thm_C17_StopHandling ==
    [][\A p \in Procs :
         LET q == proc[p]
             r == proc'[p] IN
         /\ (IsIdle(p) /\ IsOrch(r) /\ r.pc \in {"done", "hs_cancel"}) =>
               /\ jobs' = jobs /\ conn' = conn /\ batch' = batch
               /\ \E e \in stream :
                    /\ e.status = STOPPING /\ e.job = r.job
                    /\ r.pc = "done" <=> e.bid = 0
                    /\ r.pc = "hs_cancel" => r.rbid = e.bid
         /\ (IsOrch(q) /\ q.pc = "hs_cancel" /\ Stepped(p)) =>
               /\ jobs' = jobs /\ conn' = conn
               /\ \/ r.pc = "done" /\ r.res = OK
                  \/ batch' = batch /\ EntersCompensation(r, q.rbid)]_vars

W_C17_StopHandling ==
    \E p \in Procs :
        /\ IsOrch(proc[p]) /\ proc[p].pc = "done"
        /\ jobs[proc[p].job].status = STOPPING
        /\ \E h \in 1..Len(batch) : batch[h].st = "cancelled"
        /\ conn.status = IN_USE /\ conn.version = 2

\* C18: the write of update_job_status for RUNNING or STOPPING stores the
\* status, and the batch_job_id when one is supplied, and nothing else: the
\* row's TTL and every other row are as before, the connector is not written,
\* and no update_connector_status follows.
Thm_C18_NonTerminalUpdate ==
    [][\A p \in Procs :
         LET q == proc[p] IN
         (q.pc = "ujs_write" /\ q.rstat \in {RUNNING, STOPPING} /\ Stepped(p)) =>
           /\ jobs'[q.job].status = q.rstat
           /\ jobs'[q.job].bid = IF q.rbid # 0 THEN q.rbid ELSE jobs[q.job].bid
           /\ jobs'[q.job].ttl = jobs[q.job].ttl
           /\ \A j \in JobIds \ {q.job} : jobs'[j] = jobs[j]
           /\ Len(jobs') = Len(jobs)
           /\ conn' = conn
           /\ proc'[p].pc = "done" /\ proc'[p].res = OK]_vars

W_C18_NonTerminalUpdate ==
    \E p \in Procs :
        /\ proc[p].op = "StopJob" /\ proc[p].pc = "done" /\ proc[p].res = OK
        /\ jobs[proc[p].job] = [status |-> STOPPING, bid |-> 1, ttl |-> FALSE]
        /\ conn.status = IN_USE /\ conn.version = 2

\* C19: a job row that carries a TTL has status STOPPED, FAILED or SUCCEEDED; a
\* STARTED, RUNNING or STOPPING job carries none.
CE_C19_TtlOnlyTerminal ==
    \A j \in JobIds : jobs[j].ttl => jobs[j].status \in TerminalStatuses

\* C20: update_connector overwrites only the fields present in the request:
\* a successful update stores the request's name, description and
\* container_properties where they are given (container_properties as the
\* request's dump) and leaves every field that is not given, and always the
\* connector's id, arn, status, checkpoint and created_at, exactly as stored,
\* while the version goes up by one and updated_at is set to the time of the
\* update; an update that does not succeed changes nothing.
Thm_C20_UpdateConnector ==
    [][\A p \in Procs :
         (proc[p].pc = "uc_write" /\ proc'[p].pc = "done") =>
            LET r == proc[p].req IN
            IF proc'[p].res = OK
              THEN /\ conn'.name = IF "name" \in r.given THEN "n1" ELSE conn.name
                   /\ conn'.description =
                          IF "description" \in r.given THEN "d1" ELSE conn.description
                   /\ conn'.container_properties =
                          IF "container_properties" \in r.given
                            THEN [k \in PropKeys |-> IF k \in r.props THEN "p1" ELSE None]
                            ELSE conn.container_properties
                   /\ conn'.st = conn.st
                   /\ conn'.connector_id = conn.connector_id
                   /\ conn'.arn = conn.arn
                   /\ conn'.status = conn.status
                   /\ conn'.cp = conn.cp
                   /\ conn'.created_at = conn.created_at
                   /\ conn'.version = conn.version + 1
                   /\ conn'.updated_at = Now
              ELSE conn' = conn]_vars

\* an update of the name alone has succeeded on a connector that is IN_USE
\* and holds a checkpoint: the description and container_properties of the
\* creation, the status and the checkpoint are still there
W_C20_UpdateConnector ==
    /\ origin = "item"
    /\ \E p \in Procs : /\ proc[p].op = "UpdateConnector"
                        /\ proc[p].pc = "done"
                        /\ proc[p].res = OK
    /\ conn.name = "n1"
    /\ conn.description = "d0"
    /\ conn.container_properties = [k \in PropKeys |-> "p0"]
    /\ conn.status = IN_USE
    /\ conn.cp = 1
    /\ conn.created_at = CreatedAt
    /\ conn.updated_at = Now
    /\ conn.version = 4

\* C21: a StartJob that fails because the connector is not AVAILABLE, or
\* because its conditional IN_USE write lost a version race, is answered with
\* the Conflict error, never with the generic internal error.
CE_C21_StartJobConflict ==
    \A p \in Procs :
        (/\ proc[p].op = "StartJob"
         /\ proc[p].pc = "done"
         /\ proc[p].res \in {Conflict, ConnectorConflict})
        => StartJobResponse(proc[p].res).errorType = "ConflictException"

\* C30: a backend event whose status is neither SUCCEEDED nor FAILED, or that
\* has no job name, is ignored by the completion handler: the invocation ends
\* at once, without the job read and the writes of update_job_status and
\* update_connector_status, and the connector, the jobs and the stream are as
\* they were.
Thm_C30_IgnoredEvents ==
    [][\A p \in Procs :
         (/\ proc'[p].op = "Completion"
          /\ \/ proc'[p].ev \notin {SUCCEEDED, FAILED}
             \/ proc'[p].job = 0)
         => /\ proc'[p].pc = "done"
            /\ proc'[p].res = OK
            /\ conn' = conn
            /\ jobs' = jobs
            /\ stream' = stream]_vars

\* a RUNNING event of the running job has been handled while an event
\* without a job name waits: the job is RUNNING and the connector IN_USE at
\* version 2
W_C30_IgnoredEvents ==
    /\ origin = "events"
    /\ \E p \in Procs : /\ proc[p].op = "Completion"
                        /\ proc[p].pc = "done"
                        /\ proc[p].ev = "RUNNING"
                        /\ proc[p].job = 1
                        /\ proc[p].res = OK
    /\ [job |-> 0, outcome |-> SUCCEEDED] \in completions
    /\ jobs[1].status = RUNNING
    /\ conn.status = IN_USE
    /\ conn.version = 2

\* C22: reconciliation is idempotent: in a sync run that follows a completed
\* run with no change of the local documents in between, there is no upsert
\* candidate, no batch put call to the index and no put call to the ledger.
Thm_C22_Idempotent ==
    (sync.pc # "idle" /\ sync.last = "completed" /\ ~sync.edited)
    => /\ sync.cands = <<>>
       /\ \A k \in 1..Len(indexCalls) : indexCalls[k].op # "put"
       /\ \A k \in 1..Len(ledgerCalls) : ledgerCalls[k].op # "put"

\* the second run over three unchanged documents of 1, 6 and 60 MiB is at its
\* end: the first run completed and put the three checksums, the second made
\* no call
W_C22_Idempotent ==
    /\ origin = "sync"
    /\ sync.runs = 1
    /\ sync.pc = "stop"
    /\ ~sync.raised
    /\ sync.last = "completed"
    /\ ~sync.edited
    /\ local = <<NewDocument(1), NewDocument(6), NewDocument(60)>>
    /\ ledger = {[document_id |-> d, checksum |-> Checksum(d, local[d])] : d \in DocIds}
    /\ indexCalls = <<>>
    /\ ledgerCalls = <<>>

\* the put phase of the run is over
PutsDone == sync.pc \in {"ccf_put", "delete", "ccf_del", "stop"}

\* the document was in a batch put call of the run
Sent(d) ==
    \E k \in 1..Len(indexCalls) :
        /\ indexCalls[k].op = "put"
        /\ \E n \in 1..Len(indexCalls[k].docs) : indexCalls[k].docs[n] = d

\* the document is absent from the ledger the run listed, or its checksum
\* differs from the entry
AbsentOrDiffers(d) ==
    \/ \A e \in sync.ccf_docs : e.document_id # d
    \/ \E e \in sync.ccf_docs :
          /\ e.document_id = d
          /\ e.checksum # [id |-> d, metadata |-> <<local[d].title>>,
                           sha |-> local[d].content]

CE_C24_BatchCaps ==
    \A k \in 1..Len(indexCalls) :
        indexCalls[k].op = "put" =>
            /\ Len(indexCalls[k].docs) <= 10
            /\ indexCalls[k].payload <= 10

\* C25: a document of more than 50 MiB is in no upsert batch of the run; when
\* the put phase is over it has been reported as skipped, and every other
\* candidate that can be prepared has been sent.
Thm_C25_OversizeSkipped ==
    /\ \A d \in DOMAIN local :
           (local[d].kind = "local" /\ local[d].size > 50) => ~Sent(d)
    /\ PutsDone =>
           \A k \in 1..Len(sync.cands) :
               LET d == sync.cands[k] IN
               /\ local[d].size > 50 => d \in skipped
               /\ (local[d].size <= 10 \/ (local[d].size <= 50 /\ sync.s3)) => Sent(d)

\* first run over documents of 1, 60 and 6 MiB: the second was skipped, the
\* first and the third went out in one batch
W_C25_OversizeSkipped ==
    /\ origin = "sync"
    /\ sync.runs = 0
    /\ sync.pc = "ccf_put"
    /\ local = <<NewDocument(1), NewDocument(60), NewDocument(6)>>
    /\ sync.cands = <<1, 2, 3>>
    /\ skipped = {2}
    /\ Len(indexCalls) = 1
    /\ indexCalls[1].docs = <<1, 3>>
    /\ indexCalls[1].ok

\* the document was in a batch call of the run of the given kind that succeeded
Indexed(d, op) ==
    \E k \in 1..Len(indexCalls) :
        /\ indexCalls[k].op = op
        /\ indexCalls[k].ok
        /\ \E n \in 1..Len(indexCalls[k].docs) : indexCalls[k].docs[n] = d

\* C26: the ledger mirrors the index: a ledger entry is written only for a
\* document that was in an upsert batch call that succeeded, and removed only
\* for a document whose delete batch call succeeded.
CE_C26_LedgerMirrorsIndex ==
    \A k \in 1..Len(ledgerCalls) :
        \A n \in 1..ledgerCalls[k].written :
            IF ledgerCalls[k].op = "put"
              THEN Indexed(ledgerCalls[k].items[n].document_id, "put")
              ELSE Indexed(ledgerCalls[k].items[n], "delete")

RECURSIVE BatchesJoined(_)
\* the items of the calls made to the ledger, one batch after the other
BatchesJoined(cs) ==
    IF cs = <<>> THEN <<>> ELSE Head(cs).items \o BatchesJoined(Tail(cs))

\* C27: a checksum put or delete of N items is split into ceil(N/10) batches
\* of at most 10 items, one call each: while the operation runs, the batches
\* sent so far are the first pos items in order, each item once, every batch
\* has 1 to 10 items and all but the last have 10, and pos items took
\* ceil(pos/10) calls; the operation ends with pos = N.
Thm_C27_Chunked ==
    (sync.pc \in {"ccf_put", "ccf_del"} /\ origin = "chunk")
    => /\ sync.pos <= Len(sync.items)
       /\ BatchesJoined(ledgerCalls) = SubSeq(sync.items, 1, sync.pos)
       /\ \A k \in 1..Len(ledgerCalls) :
              /\ Len(ledgerCalls[k].items) \in 1..10
              /\ k < Len(ledgerCalls) => Len(ledgerCalls[k].items) = 10
              /\ ledgerCalls[k].op = IF sync.pc = "ccf_put" THEN "put" ELSE "delete"
       /\ Len(ledgerCalls) = (sync.pos + 9) \div 10

\* 25 checksums have been put: three calls, of 10, 10 and 5 items
W_C27_Chunked ==
    /\ origin = "chunk"
    /\ sync.pc = "ccf_put"
    /\ Len(sync.items) = 25
    /\ sync.pos = 25
    /\ Len(ledgerCalls) = 3
    /\ Len(ledgerCalls[1].items) = 10
    /\ Len(ledgerCalls[2].items) = 10
    /\ Len(ledgerCalls[3].items) = 5
    /\ Cardinality(ledger) = 25

\* C28: a batch checksum call in which some items were written and others
\* were not is answered with success and the list of the items that failed,
\* never with a single fatal error.
CE_C28_PartialFailure ==
    \A k \in 1..Len(ledgerCalls) :
        LET c == ledgerCalls[k] IN
        (0 < c.written /\ c.written < Len(c.items))
        => /\ c.response.status_code = 202
           /\ c.response.failed = SubSeq(c.items, c.written + 1, Len(c.items))

\* the ledger entry of d was computed from the id, the title and the content
\* that d has now
SameButTimestamps(L, d) ==
    /\ InLedger(L, d)
    /\ LedgerChecksum(L, d).id = d
    /\ LedgerChecksum(L, d).metadata[1] = local[d].title
    /\ LedgerChecksum(L, d).sha = local[d].content

\* C29: the checksum depends on the id, the content and the metadata without
\* last_updated_at and created_at: a document has the checksum of the same
\* document with other timestamps, and in a run no document whose ledger
\* entry differs from it in the timestamps only is an upsert candidate.
Thm_C29_ChecksumNoTimestamps ==
    /\ \A d \in DOMAIN local : \A t \in {"t0", "t1"}, u \in {"t0", "t1"} :
           Checksum(d, local[d])
               = Checksum(d, [local[d] EXCEPT !.last_updated_at = t, !.created_at = u])
    /\ sync.pc # "idle"
       => \A k \in 1..Len(sync.cands) : ~SameButTimestamps(sync.ccf_docs, sync.cands[k])

\* the second run, after the timestamps of a synced document changed and
\* nothing else did, has no candidate
W_C29_ChecksumNoTimestamps ==
    /\ origin = "sync"
    /\ sync.pc = "stop"
    /\ sync.runs = 1
    /\ sync.edited
    /\ sync.cands = <<>>
    /\ \E d \in DOMAIN local :
           /\ local[d].kind = "local"
           /\ local[d].last_updated_at = "t1"
           /\ local[d].created_at = "t1"
           /\ SameButTimestamps(sync.ccf_docs, d)

\* C35: in every reachable state, a connector whose stored status is AVAILABLE
\* has no job in status STARTED, RUNNING or STOPPING.
CE_C35_AvailableMeansNoActiveJob ==
    (Present(conn) /\ conn.status = AVAILABLE) => ActiveJobs = {}

\* C37: in every reachable state, every job in status STARTED, RUNNING or
\* STOPPING references a connector that still exists.
CE_C37_ActiveJobHasConnector ==
    ActiveJobs # {} => Present(conn)

\* C38: no lost update between update_connector, which rewrites the whole item
\* it read, and the field-level writers.  An update_connector write succeeds
\* only while the stored item is still the item it read, and it then keeps the
\* status and the checkpoint; the stored status changes only in a successful
\* update_connector_status write, to the status of that write, and the
\* checkpoint only in a successful put_checkpoint or delete_checkpoint write.
Thm_C38_NoLostUpdate ==
    [][/\ \A p \in Procs :
            (proc[p].pc = "uc_write" /\ Stepped(p) /\ conn' # conn)
            => /\ proc[p].item = conn
               /\ conn'.status = conn.status
               /\ conn'.cp = conn.cp
               /\ proc'[p].res = OK
       /\ (Present(conn) /\ Present(conn') /\ conn'.status # conn.status)
            => \E p \in Procs : /\ proc[p].pc = "ucs_write" /\ Stepped(p)
                                /\ conn'.status = proc[p].cstat
       /\ (Present(conn) /\ Present(conn') /\ conn'.cp # conn.cp)
            => \E p \in Procs : /\ proc[p].pc \in {"cp_write", "dcp_write"}
                                /\ Stepped(p)]_vars

\* an update_connector has succeeded on a connector that a StartJob had set
\* IN_USE and a put_checkpoint had given a checkpoint: both are still stored
W_C38_NoLostUpdate ==
    /\ origin = "fresh"
    /\ \E p \in Procs :
         /\ proc[p].op = "UpdateConnector" /\ proc[p].pc = "done" /\ proc[p].res = OK
    /\ conn.name = "n1"
    /\ conn.status = IN_USE
    /\ conn.cp = 1

\* C32: the checkpoint round trip, one call after the other.  put_checkpoint
\* succeeds on an AVAILABLE and on an IN_USE connector and changes the
\* checkpoint, the version and updated_at only; the stored checkpoint changes
\* in no other way than to the data of a put or to none by a delete;
\* get_checkpoint returns the stored data, and NotFound when there is none;
\* delete_checkpoint with no checkpoint stored fails with NotFound and leaves
\* the connector, its version included, as it is.
Thm_C32_CheckpointRoundTrip ==
    [][\A p \in Procs : Stepped(p) =>
         /\ proc[p].pc = "cp_write"
              => /\ proc'[p].pc = "done" /\ proc'[p].res = OK
                 /\ conn' = [conn EXCEPT !.cp = proc[p].data,
                                         !.version = conn.version + 1,
                                         !.updated_at = Now]
         /\ proc[p].pc = "dcp_write"
              => /\ proc'[p].pc = "done" /\ proc'[p].res = OK
                 /\ conn'.cp = 0
         /\ proc[p].pc \notin {"cp_write", "dcp_write"} => conn' = conn
         /\ (IsIdle(p) /\ proc'[p].op = "GetCheckpoint")
              => /\ proc'[p].pc = "done"
                 /\ IF conn.cp # 0
                      THEN proc'[p].res = OK /\ proc'[p].data = conn.cp
                      ELSE proc'[p].res = NotFound
         /\ (IsIdle(p) /\ proc'[p].op = "DeleteCheckpoint" /\ conn.cp = 0)
              => proc'[p].pc = "done" /\ proc'[p].res = NotFound]_vars

\* a checkpoint was put on an IN_USE connector and deleted, and a second
\* delete_checkpoint has failed: the version counts the two writes only
W_C32_CheckpointRoundTrip ==
    /\ origin = "ckpt"
    /\ calls = 3
    /\ \E p \in Procs :
         /\ proc[p].op = "DeleteCheckpoint" /\ proc[p].pc = "done"
         /\ proc[p].res = NotFound
    /\ conn.cp = 0
    /\ conn.status = IN_USE
    /\ conn.version = InitialVersion + 4

\* a get_checkpoint has returned the second of two different values put
W_C32_GetReturnsLastPut ==
    /\ origin = "ckpt"
    /\ calls = 3
    /\ \E p \in Procs :
         /\ proc[p].op = "GetCheckpoint" /\ proc[p].pc = "done"
         /\ proc[p].res = OK /\ proc[p].data = 2
    /\ conn.cp = 2
    /\ conn.status = AVAILABLE
    /\ conn.version = InitialVersion + 2

RECURSIVE PagesJoined(_)
\* the jobs of the pages, one page after the other
PagesJoined(ps) ==
    IF ps = <<>> THEN <<>> ELSE Head(ps).jobs \o PagesJoined(Tail(ps))

\* the jobs of the connector that have the requested status, in index order
Requested ==
    SelectSeq(Index, LAMBDA it : /\ it.connector_id = conn.connector_id
                                 /\ listing.status \in {None, it.status})

\* C31: with no concurrent writes, following the cursors of list_jobs from the
\* first page until no cursor is returned enumerates every job of the
\* connector that has the requested status exactly once, and no job of
\* another connector; a page holds at most max_results jobs.
Thm_C31_ListJobs ==
    origin = "list" =>
      LET got == PagesJoined(listing.pages) IN
      /\ Len(got) <= Len(Requested)
      /\ got = SubSeq(Requested, 1, Len(got))
      /\ \A a, b \in 1..Len(got) : a # b => got[a].job_id # got[b].job_id
      /\ \A a \in 1..Len(got) : got[a].connector_id = conn.connector_id
      /\ \A k \in 1..Len(listing.pages) :
             /\ Len(listing.pages[k].jobs) <= listing.max_results
             /\ k < Len(listing.pages) => listing.pages[k].next_token # {}
      /\ listing.pc = "done" => got = Requested
      /\ listing.pc \in {"paging", "done"}

\* the listing is over: with a filter and two jobs a page, the first page
\* held one job and a cursor; another connector has a job
W_C31_ListJobs ==
    /\ origin = "list"
    /\ listing.pc = "done"
    /\ listing.status = STOPPED
    /\ listing.max_results = 2
    /\ listing.others # <<>>
    /\ Len(listing.pages) = 2
    /\ Len(listing.pages[1].jobs) = 1
    /\ listing.pages[1].next_token # {}
    /\ Len(PagesJoined(listing.pages)) = 3
    /\ Len(jobs) = 4

RECURSIVE DocsJoined(_, _)
\* the documents of the index calls of one kind, one call after the other
DocsJoined(cs, op) ==
    IF cs = <<>> THEN <<>>
    ELSE (IF Head(cs).op = op THEN Head(cs).docs ELSE <<>>) \o DocsJoined(Tail(cs), op)

\* the documents of a list that were not skipped in preparation
NotSkipped(ds) == SelectSeq(ds, LAMBDA d : d \notin skipped)

\* C34: the batching of upserts and deletes loses and duplicates nothing.
\* While the candidates are looped over, the batches sent and the batch being
\* filled hold, in order, the candidates seen so far that were not skipped;
\* after the loop the batches sent hold every such candidate once.  The delete
\* batches hold, in order, the ids of the delete list, each once, at most 10
\* to a batch.  No batch is empty.
Thm_C34_BatchingLosesNothing ==
    /\ sync.pc = "put"
         => /\ sync.i <= Len(sync.cands) + 1
            /\ DocsJoined(indexCalls, "put")
                  \o [k \in 1..Len(sync.batch) |-> sync.batch[k].id]
                 = NotSkipped(SubSeq(sync.cands, 1, sync.i - 1))
    /\ PutsDone => DocsJoined(indexCalls, "put") = NotSkipped(sync.cands)
    /\ sync.pc = "delete"
         => /\ sync.i <= Len(sync.dels) + 1
            /\ DocsJoined(indexCalls, "delete") = SubSeq(sync.dels, 1, sync.i - 1)
    /\ sync.pc = "ccf_del" => DocsJoined(indexCalls, "delete") = sync.dels
    /\ \A op \in {"put", "delete"} :
         LET got == DocsJoined(indexCalls, op) IN
         \A a, b \in 1..Len(got) : a # b => got[a] # got[b]
    /\ \A k \in 1..Len(indexCalls) :
         /\ indexCalls[k].docs # <<>>
         /\ indexCalls[k].op = "delete" => Len(indexCalls[k].docs) <= 10

\* 25 ids were deleted in batches of 10, 10 and 5
W_C34_BatchingLosesNothing ==
    /\ origin = "batch"
    /\ sync.pc = "ccf_del"
    /\ Len(sync.dels) = 25
    /\ Len(indexCalls) = 3
    /\ Len(indexCalls[1].docs) = 10
    /\ Len(indexCalls[2].docs) = 10
    /\ Len(indexCalls[3].docs) = 5

\* 25 candidates, one of them skipped, were sent in three batches
W_C34_UpsertBatches ==
    /\ origin = "batch"
    /\ sync.pc = "ccf_put"
    /\ Len(sync.cands) = 25
    /\ skipped = {2}
    /\ Len(indexCalls) = 3
    /\ Len(DocsJoined(indexCalls, "put")) = 24

\* C33: the sync job a run of sync() has started is stopped exactly once, by
\* the end of the run, whatever step of the run raises; when the start itself
\* raises, no stop is attempted and sync() raises.
Thm_C33_StoppedOnce ==
    /\ sync.pc # "idle" => sync.started /\ sync.stops = 0
    /\ (sync.pc = "idle" /\ sync.runs > 0)
         => /\ sync.stops = IF sync.started THEN 1 ELSE 0
            /\ ~sync.started => sync.last = "raised"
            /\ sync.raised => sync.last = "raised"

\* a run has raised while it prepared its first candidate: nothing was sent,
\* and the sync job was stopped once
W_C33_StoppedOnce ==
    /\ origin = "run"
    /\ sync.pc = "idle"
    /\ sync.runs = 1
    /\ sync.started
    /\ sync.raised
    /\ sync.last = "raised"
    /\ sync.stops = 1
    /\ sync.cands # <<>>
    /\ sync.i = 1
    /\ indexCalls = <<>>
    /\ ledgerCalls = <<>>

\* the start of the sync job has raised: no stop
W_C33_StartFailed ==
    /\ origin = "run"
    /\ sync.pc = "idle"
    /\ sync.runs = 1
    /\ ~sync.started
    /\ sync.stops = 0
    /\ sync.last = "raised"

\* C36: when every stream record and every Batch event is processed and the
\* Batch service has ended every job it was given, so that from some point on
\* nothing is running or pending, no job stays STARTED, RUNNING or STOPPING:
\* from some point on every job is STOPPED, FAILED or SUCCEEDED.
CE_C36_EventuallyTerminal ==
    <>[]Quiescent => <>[](ActiveJobs = {})

\* the job has SUCCEEDED, a StopJob after that has set it to STOPPING, and the
\* cancel request of the orchestrator was accepted: nothing is pending
StuckStopping ==
    /\ origin = "live"
    /\ Quiescent
    /\ jobs[1].status = STOPPING
    /\ jobs[1].ttl
    /\ conn.status = AVAILABLE
    /\ calls = 3

====
